---- MODULE Spec2Model ----
(***************************************************************************)
(* State-machine model of the RAG service of data-lake-rag:                *)
(*   - the ingestion pipeline  (document_manager.process_document and its  *)
(*     callers main.upload_document / process_minio_document),             *)
(*   - the hybrid retrieval engine (retrieval.retrieve_documents).         *)
(* Strings on which the code computes (paths, file names, sources, chunk   *)
(* texts, queries) are sequences of Unicode code points, so that           *)
(* replace / lower / split / basename are computed and not assumed.        *)
(* The external stores are modelled by their client-visible contract:      *)
(* Elasticsearch (indices, upsert by id, refresh), MinIO (buckets,         *)
(* objects) and the local file system (path -> bytes).                     *)
(***************************************************************************)
EXTENDS Integers, Sequences, FiniteSets, TLC

VARIABLES
    fs,            \* local file system: path -> file data (DOMAIN = existing files)
    esDocs,        \* Elasticsearch: index name -> (id -> stored record)
    esSearchable,  \* Elasticsearch: index name -> (id -> record visible to search)
    esMapping,     \* Elasticsearch: index name -> mapping given at creation
    minioBuckets,  \* MinIO: set of existing buckets
    minioObjects,  \* MinIO: <<bucket, object name>> -> data
    proc,          \* per worker thread: position and locals of its ingestion task
    queue,         \* requests not yet received by the HTTP front door
    hist,          \* history: one summary per finished process_document call
    faults,        \* number of external-call failures that happened so far
    tmpCount,      \* number of temporary files created by tempfile so far
    rq,            \* the running retrieve_documents call: position, arguments, locals, result
    rqOther,       \* a second retrieve_documents call, waiting while rq takes a step
    hashKey        \* the key of the interpreter's string hash, drawn when the service starts

vars == <<fs, esDocs, esSearchable, esMapping, minioBuckets, minioObjects,
          proc, queue, hist, faults, tmpCount, rq, rqOther, hashKey>>

storeVars == <<esDocs, esSearchable, esMapping, minioBuckets, minioObjects>>

-----------------------------------------------------------------------------
(* Bounds of the model *)

\* longest sequence of requests sent to the service in one behaviour
MaxQueue == 2
\* most external-call failures in one behaviour
MaxFaults == 1

-----------------------------------------------------------------------------
(* Strings as sequences of characters, a character being its code point *)

Min(a, b) == IF a <= b THEN a ELSE b

StartsWith(s, p) == Len(s) >= Len(p) /\ SubSeq(s, 1, Len(p)) = p

\* str.replace(a, b) for one-character a and b
Replace(s, a, b) == [k \in 1..Len(s) |-> IF s[k] = a THEN b ELSE s[k]]

\* the printable ASCII characters that have a literal, in code point order (the
\* grave accent, 96, has none)
ASCII ==
    <<" ", "!", "\"", "#", "$", "%", "&", "'", "(", ")", "*", "+", ",", "-", ".", "/",
      "0", "1", "2", "3", "4", "5", "6", "7", "8", "9", ":", ";", "<", "=", ">", "?",
      "@", "A", "B", "C", "D", "E", "F", "G", "H", "I", "J", "K", "L", "M", "N", "O",
      "P", "Q", "R", "S", "T", "U", "V", "W", "X", "Y", "Z", "[", "\\", "]", "^", "_",
      "a", "b", "c", "d", "e", "f", "g", "h", "i", "j", "k", "l", "m", "n", "o",
      "p", "q", "r", "s", "t", "u", "v", "w", "x", "y", "z", "{", "|", "}", "~">>

\* the code point of each of them
CODE_POINT ==
    [c \in {ASCII[n] : n \in 1..Len(ASCII)} |->
        LET k == CHOOSE n \in 1..Len(ASCII) : ASCII[n] = c
        IN  IF k <= 64 THEN 31 + k ELSE 32 + k]

\* ord(c): the code point of a character written as a literal
ord(c) == CODE_POINT[c]

\* a string written as the sequence of its literal characters
Chars(literal) == [k \in 1..Len(literal) |-> ord(literal[k])]

RECURSIVE Concat(_)
Concat(strings) == IF strings = <<>> THEN <<>> ELSE strings[1] \o Concat(Tail(strings))

\* The characters str.lower() changes, as runs <<first, last, step, delta>>:
\* every step-th code point from first to last has the lower case code point +
\* delta (the Unicode database of the interpreter; U+0130 is in LowerChar).
LowerRuns ==
    {<<65, 90, 1, 32>>, <<192, 214, 1, 32>>, <<216, 222, 1, 32>>, <<256, 302, 2, 1>>,
     <<306, 310, 2, 1>>, <<313, 327, 2, 1>>, <<330, 374, 2, 1>>, <<376, 376, 1, -121>>,
     <<377, 381, 2, 1>>, <<385, 385, 1, 210>>, <<386, 388, 2, 1>>, <<390, 390, 1, 206>>,
     <<391, 391, 1, 1>>, <<393, 394, 1, 205>>, <<395, 395, 1, 1>>, <<398, 398, 1, 79>>,
     <<399, 399, 1, 202>>, <<400, 400, 1, 203>>, <<401, 401, 1, 1>>, <<403, 403, 1, 205>>,
     <<404, 404, 1, 207>>, <<406, 406, 1, 211>>, <<407, 407, 1, 209>>, <<408, 408, 1, 1>>,
     <<412, 412, 1, 211>>, <<413, 413, 1, 213>>, <<415, 415, 1, 214>>, <<416, 420, 2, 1>>,
     <<422, 422, 1, 218>>, <<423, 423, 1, 1>>, <<425, 425, 1, 218>>, <<428, 428, 1, 1>>,
     <<430, 430, 1, 218>>, <<431, 431, 1, 1>>, <<433, 434, 1, 217>>, <<435, 437, 2, 1>>,
     <<439, 439, 1, 219>>, <<440, 440, 1, 1>>, <<444, 444, 1, 1>>, <<452, 452, 1, 2>>,
     <<453, 453, 1, 1>>, <<455, 455, 1, 2>>, <<456, 456, 1, 1>>, <<458, 458, 1, 2>>,
     <<459, 475, 2, 1>>, <<478, 494, 2, 1>>, <<497, 497, 1, 2>>, <<498, 500, 2, 1>>,
     <<502, 502, 1, -97>>, <<503, 503, 1, -56>>, <<504, 542, 2, 1>>, <<544, 544, 1, -130>>,
     <<546, 562, 2, 1>>, <<570, 570, 1, 10795>>, <<571, 571, 1, 1>>, <<573, 573, 1, -163>>,
     <<574, 574, 1, 10792>>, <<577, 577, 1, 1>>, <<579, 579, 1, -195>>, <<580, 580, 1, 69>>,
     <<581, 581, 1, 71>>, <<582, 590, 2, 1>>, <<880, 882, 2, 1>>, <<886, 886, 1, 1>>,
     <<895, 895, 1, 116>>, <<902, 902, 1, 38>>, <<904, 906, 1, 37>>, <<908, 908, 1, 64>>,
     <<910, 911, 1, 63>>, <<913, 929, 1, 32>>, <<931, 939, 1, 32>>, <<975, 975, 1, 8>>,
     <<984, 1006, 2, 1>>, <<1012, 1012, 1, -60>>, <<1015, 1015, 1, 1>>, <<1017, 1017, 1, -7>>,
     <<1018, 1018, 1, 1>>, <<1021, 1023, 1, -130>>, <<1024, 1039, 1, 80>>,
     <<1040, 1071, 1, 32>>, <<1120, 1152, 2, 1>>, <<1162, 1214, 2, 1>>, <<1216, 1216, 1, 15>>,
     <<1217, 1229, 2, 1>>, <<1232, 1326, 2, 1>>, <<1329, 1366, 1, 48>>,
     <<4256, 4293, 1, 7264>>, <<4295, 4295, 1, 7264>>, <<4301, 4301, 1, 7264>>,
     <<5024, 5103, 1, 38864>>, <<5104, 5109, 1, 8>>, <<7312, 7354, 1, -3008>>,
     <<7357, 7359, 1, -3008>>, <<7680, 7828, 2, 1>>, <<7838, 7838, 1, -7615>>,
     <<7840, 7934, 2, 1>>, <<7944, 7951, 1, -8>>, <<7960, 7965, 1, -8>>, <<7976, 7983, 1, -8>>,
     <<7992, 7999, 1, -8>>, <<8008, 8013, 1, -8>>, <<8025, 8031, 2, -8>>,
     <<8040, 8047, 1, -8>>, <<8072, 8079, 1, -8>>, <<8088, 8095, 1, -8>>,
     <<8104, 8111, 1, -8>>, <<8120, 8121, 1, -8>>, <<8122, 8123, 1, -74>>,
     <<8124, 8124, 1, -9>>, <<8136, 8139, 1, -86>>, <<8140, 8140, 1, -9>>,
     <<8152, 8153, 1, -8>>, <<8154, 8155, 1, -100>>, <<8168, 8169, 1, -8>>,
     <<8170, 8171, 1, -112>>, <<8172, 8172, 1, -7>>, <<8184, 8185, 1, -128>>,
     <<8186, 8187, 1, -126>>, <<8188, 8188, 1, -9>>, <<8486, 8486, 1, -7517>>,
     <<8490, 8490, 1, -8383>>, <<8491, 8491, 1, -8262>>, <<8498, 8498, 1, 28>>,
     <<8544, 8559, 1, 16>>, <<8579, 8579, 1, 1>>, <<9398, 9423, 1, 26>>,
     <<11264, 11311, 1, 48>>, <<11360, 11360, 1, 1>>, <<11362, 11362, 1, -10743>>,
     <<11363, 11363, 1, -3814>>, <<11364, 11364, 1, -10727>>, <<11367, 11371, 2, 1>>,
     <<11373, 11373, 1, -10780>>, <<11374, 11374, 1, -10749>>, <<11375, 11375, 1, -10783>>,
     <<11376, 11376, 1, -10782>>, <<11378, 11378, 1, 1>>, <<11381, 11381, 1, 1>>,
     <<11390, 11391, 1, -10815>>, <<11392, 11490, 2, 1>>, <<11499, 11501, 2, 1>>,
     <<11506, 11506, 1, 1>>, <<42560, 42604, 2, 1>>, <<42624, 42650, 2, 1>>,
     <<42786, 42798, 2, 1>>, <<42802, 42862, 2, 1>>, <<42873, 42875, 2, 1>>,
     <<42877, 42877, 1, -35332>>, <<42878, 42886, 2, 1>>, <<42891, 42891, 1, 1>>,
     <<42893, 42893, 1, -42280>>, <<42896, 42898, 2, 1>>, <<42902, 42920, 2, 1>>,
     <<42922, 42922, 1, -42308>>, <<42923, 42923, 1, -42319>>, <<42924, 42924, 1, -42315>>,
     <<42925, 42925, 1, -42305>>, <<42926, 42926, 1, -42308>>, <<42928, 42928, 1, -42258>>,
     <<42929, 42929, 1, -42282>>, <<42930, 42930, 1, -42261>>, <<42931, 42931, 1, 928>>,
     <<42932, 42946, 2, 1>>, <<42948, 42948, 1, -48>>, <<42949, 42949, 1, -42307>>,
     <<42950, 42950, 1, -35384>>, <<42951, 42953, 2, 1>>, <<42960, 42960, 1, 1>>,
     <<42966, 42968, 2, 1>>, <<42997, 42997, 1, 1>>, <<65313, 65338, 1, 32>>,
     <<66560, 66599, 1, 40>>, <<66736, 66771, 1, 40>>, <<66928, 66938, 1, 39>>,
     <<66940, 66954, 1, 39>>, <<66956, 66962, 1, 39>>, <<66964, 66965, 1, 39>>,
     <<68736, 68786, 1, 64>>, <<71840, 71871, 1, 32>>, <<93760, 93791, 1, 32>>,
     <<125184, 125217, 1, 34>>}

\* the code points of the ranges <<first, last>>
InRanges(c, ranges) == \E r \in ranges : r[1] <= c /\ c <= r[2]

\* Cased characters that are not case-ignorable (the Cased property of
\* unicodeobject.c's final_sigma, read after the ignorable ones are skipped)
CasedRanges ==
    {<<65, 90>>, <<97, 122>>, <<170, 170>>, <<181, 181>>, <<186, 186>>, <<192, 214>>,
     <<216, 246>>, <<248, 442>>, <<444, 447>>, <<452, 659>>, <<661, 687>>, <<880, 883>>,
     <<886, 887>>, <<891, 893>>, <<895, 895>>, <<902, 902>>, <<904, 906>>, <<908, 908>>,
     <<910, 929>>, <<931, 1013>>, <<1015, 1153>>, <<1162, 1327>>, <<1329, 1366>>,
     <<1376, 1416>>, <<4256, 4293>>, <<4295, 4295>>, <<4301, 4301>>, <<4304, 4346>>,
     <<4349, 4351>>, <<5024, 5109>>, <<5112, 5117>>, <<7296, 7304>>, <<7312, 7354>>,
     <<7357, 7359>>, <<7424, 7467>>, <<7531, 7543>>, <<7545, 7578>>, <<7680, 7957>>,
     <<7960, 7965>>, <<7968, 8005>>, <<8008, 8013>>, <<8016, 8023>>, <<8025, 8025>>,
     <<8027, 8027>>, <<8029, 8029>>, <<8031, 8061>>, <<8064, 8116>>, <<8118, 8124>>,
     <<8126, 8126>>, <<8130, 8132>>, <<8134, 8140>>, <<8144, 8147>>, <<8150, 8155>>,
     <<8160, 8172>>, <<8178, 8180>>, <<8182, 8188>>, <<8450, 8450>>, <<8455, 8455>>,
     <<8458, 8467>>, <<8469, 8469>>, <<8473, 8477>>, <<8484, 8484>>, <<8486, 8486>>,
     <<8488, 8488>>, <<8490, 8493>>, <<8495, 8500>>, <<8505, 8505>>, <<8508, 8511>>,
     <<8517, 8521>>, <<8526, 8526>>, <<8544, 8575>>, <<8579, 8580>>, <<9398, 9449>>,
     <<11264, 11387>>, <<11390, 11492>>, <<11499, 11502>>, <<11506, 11507>>, <<11520, 11557>>,
     <<11559, 11559>>, <<11565, 11565>>, <<42560, 42605>>, <<42624, 42651>>, <<42786, 42863>>,
     <<42865, 42887>>, <<42891, 42894>>, <<42896, 42954>>, <<42960, 42961>>, <<42963, 42963>>,
     <<42965, 42969>>, <<42997, 42998>>, <<43002, 43002>>, <<43824, 43866>>, <<43872, 43880>>,
     <<43888, 43967>>, <<64256, 64262>>, <<64275, 64279>>, <<65313, 65338>>, <<65345, 65370>>,
     <<66560, 66639>>, <<66736, 66771>>, <<66776, 66811>>, <<66928, 66938>>, <<66940, 66954>>,
     <<66956, 66962>>, <<66964, 66965>>, <<66967, 66977>>, <<66979, 66993>>, <<66995, 67001>>,
     <<67003, 67004>>, <<68736, 68786>>, <<68800, 68850>>, <<71840, 71903>>, <<93760, 93823>>,
     <<119808, 119892>>, <<119894, 119964>>, <<119966, 119967>>, <<119970, 119970>>,
     <<119973, 119974>>, <<119977, 119980>>, <<119982, 119993>>, <<119995, 119995>>,
     <<119997, 120003>>, <<120005, 120069>>, <<120071, 120074>>, <<120077, 120084>>,
     <<120086, 120092>>, <<120094, 120121>>, <<120123, 120126>>, <<120128, 120132>>,
     <<120134, 120134>>, <<120138, 120144>>, <<120146, 120485>>, <<120488, 120512>>,
     <<120514, 120538>>, <<120540, 120570>>, <<120572, 120596>>, <<120598, 120628>>,
     <<120630, 120654>>, <<120656, 120686>>, <<120688, 120712>>, <<120714, 120744>>,
     <<120746, 120770>>, <<120772, 120779>>, <<122624, 122633>>, <<122635, 122654>>,
     <<125184, 125251>>, <<127280, 127305>>, <<127312, 127337>>, <<127344, 127369>>}

\* the Case_Ignorable property of unicodeobject.c's final_sigma
CaseIgnorableRanges ==
    {<<39, 39>>, <<46, 46>>, <<58, 58>>, <<94, 94>>, <<96, 96>>, <<168, 168>>, <<173, 173>>,
     <<175, 175>>, <<180, 180>>, <<183, 184>>, <<688, 879>>, <<884, 885>>, <<890, 890>>,
     <<900, 901>>, <<903, 903>>, <<1155, 1161>>, <<1369, 1369>>, <<1375, 1375>>,
     <<1425, 1469>>, <<1471, 1471>>, <<1473, 1474>>, <<1476, 1477>>, <<1479, 1479>>,
     <<1524, 1524>>, <<1536, 1541>>, <<1552, 1562>>, <<1564, 1564>>, <<1600, 1600>>,
     <<1611, 1631>>, <<1648, 1648>>, <<1750, 1757>>, <<1759, 1768>>, <<1770, 1773>>,
     <<1807, 1807>>, <<1809, 1809>>, <<1840, 1866>>, <<1958, 1968>>, <<2027, 2037>>,
     <<2042, 2042>>, <<2045, 2045>>, <<2070, 2093>>, <<2137, 2139>>, <<2184, 2184>>,
     <<2192, 2193>>, <<2200, 2207>>, <<2249, 2306>>, <<2362, 2362>>, <<2364, 2364>>,
     <<2369, 2376>>, <<2381, 2381>>, <<2385, 2391>>, <<2402, 2403>>, <<2417, 2417>>,
     <<2433, 2433>>, <<2492, 2492>>, <<2497, 2500>>, <<2509, 2509>>, <<2530, 2531>>,
     <<2558, 2558>>, <<2561, 2562>>, <<2620, 2620>>, <<2625, 2626>>, <<2631, 2632>>,
     <<2635, 2637>>, <<2641, 2641>>, <<2672, 2673>>, <<2677, 2677>>, <<2689, 2690>>,
     <<2748, 2748>>, <<2753, 2757>>, <<2759, 2760>>, <<2765, 2765>>, <<2786, 2787>>,
     <<2810, 2815>>, <<2817, 2817>>, <<2876, 2876>>, <<2879, 2879>>, <<2881, 2884>>,
     <<2893, 2893>>, <<2901, 2902>>, <<2914, 2915>>, <<2946, 2946>>, <<3008, 3008>>,
     <<3021, 3021>>, <<3072, 3072>>, <<3076, 3076>>, <<3132, 3132>>, <<3134, 3136>>,
     <<3142, 3144>>, <<3146, 3149>>, <<3157, 3158>>, <<3170, 3171>>, <<3201, 3201>>,
     <<3260, 3260>>, <<3263, 3263>>, <<3270, 3270>>, <<3276, 3277>>, <<3298, 3299>>,
     <<3328, 3329>>, <<3387, 3388>>, <<3393, 3396>>, <<3405, 3405>>, <<3426, 3427>>,
     <<3457, 3457>>, <<3530, 3530>>, <<3538, 3540>>, <<3542, 3542>>, <<3633, 3633>>,
     <<3636, 3642>>, <<3654, 3662>>, <<3761, 3761>>, <<3764, 3772>>, <<3782, 3782>>,
     <<3784, 3789>>, <<3864, 3865>>, <<3893, 3893>>, <<3895, 3895>>, <<3897, 3897>>,
     <<3953, 3966>>, <<3968, 3972>>, <<3974, 3975>>, <<3981, 3991>>, <<3993, 4028>>,
     <<4038, 4038>>, <<4141, 4144>>, <<4146, 4151>>, <<4153, 4154>>, <<4157, 4158>>,
     <<4184, 4185>>, <<4190, 4192>>, <<4209, 4212>>, <<4226, 4226>>, <<4229, 4230>>,
     <<4237, 4237>>, <<4253, 4253>>, <<4348, 4348>>, <<4957, 4959>>, <<5906, 5908>>,
     <<5938, 5939>>, <<5970, 5971>>, <<6002, 6003>>, <<6068, 6069>>, <<6071, 6077>>,
     <<6086, 6086>>, <<6089, 6099>>, <<6103, 6103>>, <<6109, 6109>>, <<6155, 6159>>,
     <<6211, 6211>>, <<6277, 6278>>, <<6313, 6313>>, <<6432, 6434>>, <<6439, 6440>>,
     <<6450, 6450>>, <<6457, 6459>>, <<6679, 6680>>, <<6683, 6683>>, <<6742, 6742>>,
     <<6744, 6750>>, <<6752, 6752>>, <<6754, 6754>>, <<6757, 6764>>, <<6771, 6780>>,
     <<6783, 6783>>, <<6823, 6823>>, <<6832, 6862>>, <<6912, 6915>>, <<6964, 6964>>,
     <<6966, 6970>>, <<6972, 6972>>, <<6978, 6978>>, <<7019, 7027>>, <<7040, 7041>>,
     <<7074, 7077>>, <<7080, 7081>>, <<7083, 7085>>, <<7142, 7142>>, <<7144, 7145>>,
     <<7149, 7149>>, <<7151, 7153>>, <<7212, 7219>>, <<7222, 7223>>, <<7288, 7293>>,
     <<7376, 7378>>, <<7380, 7392>>, <<7394, 7400>>, <<7405, 7405>>, <<7412, 7412>>,
     <<7416, 7417>>, <<7468, 7530>>, <<7544, 7544>>, <<7579, 7679>>, <<8125, 8125>>,
     <<8127, 8129>>, <<8141, 8143>>, <<8157, 8159>>, <<8173, 8175>>, <<8189, 8190>>,
     <<8203, 8207>>, <<8216, 8217>>, <<8228, 8228>>, <<8231, 8231>>, <<8234, 8238>>,
     <<8288, 8292>>, <<8294, 8303>>, <<8305, 8305>>, <<8319, 8319>>, <<8336, 8348>>,
     <<8400, 8432>>, <<11388, 11389>>, <<11503, 11505>>, <<11631, 11631>>, <<11647, 11647>>,
     <<11744, 11775>>, <<11823, 11823>>, <<12293, 12293>>, <<12330, 12333>>, <<12337, 12341>>,
     <<12347, 12347>>, <<12441, 12446>>, <<12540, 12542>>, <<40981, 40981>>, <<42232, 42237>>,
     <<42508, 42508>>, <<42607, 42610>>, <<42612, 42621>>, <<42623, 42623>>, <<42652, 42655>>,
     <<42736, 42737>>, <<42752, 42785>>, <<42864, 42864>>, <<42888, 42890>>, <<42994, 42996>>,
     <<43000, 43001>>, <<43010, 43010>>, <<43014, 43014>>, <<43019, 43019>>, <<43045, 43046>>,
     <<43052, 43052>>, <<43204, 43205>>, <<43232, 43249>>, <<43263, 43263>>, <<43302, 43309>>,
     <<43335, 43345>>, <<43392, 43394>>, <<43443, 43443>>, <<43446, 43449>>, <<43452, 43453>>,
     <<43471, 43471>>, <<43493, 43494>>, <<43561, 43566>>, <<43569, 43570>>, <<43573, 43574>>,
     <<43587, 43587>>, <<43596, 43596>>, <<43632, 43632>>, <<43644, 43644>>, <<43696, 43696>>,
     <<43698, 43700>>, <<43703, 43704>>, <<43710, 43711>>, <<43713, 43713>>, <<43741, 43741>>,
     <<43756, 43757>>, <<43763, 43764>>, <<43766, 43766>>, <<43867, 43871>>, <<43881, 43883>>,
     <<44005, 44005>>, <<44008, 44008>>, <<44013, 44013>>, <<64286, 64286>>, <<64434, 64450>>,
     <<65024, 65039>>, <<65043, 65043>>, <<65056, 65071>>, <<65106, 65106>>, <<65109, 65109>>,
     <<65279, 65279>>, <<65287, 65287>>, <<65294, 65294>>, <<65306, 65306>>, <<65342, 65342>>,
     <<65344, 65344>>, <<65392, 65392>>, <<65438, 65439>>, <<65507, 65507>>, <<65529, 65531>>,
     <<66045, 66045>>, <<66272, 66272>>, <<66422, 66426>>, <<67456, 67461>>, <<67463, 67504>>,
     <<67506, 67514>>, <<68097, 68099>>, <<68101, 68102>>, <<68108, 68111>>, <<68152, 68154>>,
     <<68159, 68159>>, <<68325, 68326>>, <<68900, 68903>>, <<69291, 69292>>, <<69446, 69456>>,
     <<69506, 69509>>, <<69633, 69633>>, <<69688, 69702>>, <<69744, 69744>>, <<69747, 69748>>,
     <<69759, 69761>>, <<69811, 69814>>, <<69817, 69818>>, <<69821, 69821>>, <<69826, 69826>>,
     <<69837, 69837>>, <<69888, 69890>>, <<69927, 69931>>, <<69933, 69940>>, <<70003, 70003>>,
     <<70016, 70017>>, <<70070, 70078>>, <<70089, 70092>>, <<70095, 70095>>, <<70191, 70193>>,
     <<70196, 70196>>, <<70198, 70199>>, <<70206, 70206>>, <<70367, 70367>>, <<70371, 70378>>,
     <<70400, 70401>>, <<70459, 70460>>, <<70464, 70464>>, <<70502, 70508>>, <<70512, 70516>>,
     <<70712, 70719>>, <<70722, 70724>>, <<70726, 70726>>, <<70750, 70750>>, <<70835, 70840>>,
     <<70842, 70842>>, <<70847, 70848>>, <<70850, 70851>>, <<71090, 71093>>, <<71100, 71101>>,
     <<71103, 71104>>, <<71132, 71133>>, <<71219, 71226>>, <<71229, 71229>>, <<71231, 71232>>,
     <<71339, 71339>>, <<71341, 71341>>, <<71344, 71349>>, <<71351, 71351>>, <<71453, 71455>>,
     <<71458, 71461>>, <<71463, 71467>>, <<71727, 71735>>, <<71737, 71738>>, <<71995, 71996>>,
     <<71998, 71998>>, <<72003, 72003>>, <<72148, 72151>>, <<72154, 72155>>, <<72160, 72160>>,
     <<72193, 72202>>, <<72243, 72248>>, <<72251, 72254>>, <<72263, 72263>>, <<72273, 72278>>,
     <<72281, 72283>>, <<72330, 72342>>, <<72344, 72345>>, <<72752, 72758>>, <<72760, 72765>>,
     <<72767, 72767>>, <<72850, 72871>>, <<72874, 72880>>, <<72882, 72883>>, <<72885, 72886>>,
     <<73009, 73014>>, <<73018, 73018>>, <<73020, 73021>>, <<73023, 73029>>, <<73031, 73031>>,
     <<73104, 73105>>, <<73109, 73109>>, <<73111, 73111>>, <<73459, 73460>>, <<78896, 78904>>,
     <<92912, 92916>>, <<92976, 92982>>, <<92992, 92995>>, <<94031, 94031>>, <<94095, 94111>>,
     <<94176, 94177>>, <<94179, 94180>>, <<110576, 110579>>, <<110581, 110587>>,
     <<110589, 110590>>, <<113821, 113822>>, <<113824, 113827>>, <<118528, 118573>>,
     <<118576, 118598>>, <<119143, 119145>>, <<119155, 119170>>, <<119173, 119179>>,
     <<119210, 119213>>, <<119362, 119364>>, <<121344, 121398>>, <<121403, 121452>>,
     <<121461, 121461>>, <<121476, 121476>>, <<121499, 121503>>, <<121505, 121519>>,
     <<122880, 122886>>, <<122888, 122904>>, <<122907, 122913>>, <<122915, 122916>>,
     <<122918, 122922>>, <<123184, 123197>>, <<123566, 123566>>, <<123628, 123631>>,
     <<125136, 125142>>, <<125252, 125259>>, <<127995, 127999>>, <<917505, 917505>>,
     <<917536, 917631>>, <<917760, 917999>>}

Cased(c) == InRanges(c, CasedRanges)
CaseIgnorable(c) == InRanges(c, CaseIgnorableRanges)

CAPITAL_SIGMA == 931
SMALL_SIGMA == 963
FINAL_SIGMA == 962
CAPITAL_I_DOT == 304
SMALL_I == 105
COMBINING_DOT == 775

\* _PyUnicode_ToLowercase: the simple lower case of a character
ToLower(c) ==
    LET hits == {r \in LowerRuns : r[1] <= c /\ c <= r[2] /\ (c - r[1]) % r[3] = 0}
    IN  IF hits = {} THEN c ELSE c + (CHOOSE r \in hits : TRUE)[4]

\* c.lower() for a string of the one character c (_PyUnicode_ToLowerFull): one
\* character, or two for the capital I with a dot above
LowerChar(c) ==
    IF c = CAPITAL_I_DOT THEN <<SMALL_I, COMBINING_DOT>> ELSE <<ToLower(c)>>

\* unicodeobject.c final_sigma: the capital sigma at position i of s is in the
\* final-sigma context when the nearest character before it that is not
\* case-ignorable is cased and the nearest such character after it is not
FinalSigma(s, i) ==
    LET before == {j \in 1..(i - 1) : ~CaseIgnorable(s[j])}
        after  == {j \in (i + 1)..Len(s) : ~CaseIgnorable(s[j])}
    IN  /\ before # {}
        /\ Cased(s[CHOOSE j \in before : \A m \in before : m <= j])
        /\ \/ after = {}
           \/ ~Cased(s[CHOOSE j \in after : \A m \in after : j <= m])

\* the characters ascii_upper_or_lower changes
ASCII_CAPITALS == ord("A")..ord("Z")

\* str.lower(): unicode_lower takes a string of ASCII characters through
\* ascii_upper_or_lower and any other one, character by character, through
\* lower_ucs4
Lower(s) ==
    IF \A k \in 1..Len(s) : s[k] < 128
    THEN [k \in 1..Len(s) |-> IF s[k] \in ASCII_CAPITALS THEN s[k] + 32 ELSE s[k]]
    ELSE Concat([k \in 1..Len(s) |->
             IF s[k] = CAPITAL_SIGMA
             THEN <<IF FinalSigma(s, k) THEN FINAL_SIGMA ELSE SMALL_SIGMA>>
             ELSE LowerChar(s[k])])

\* str.rfind(c) + 1: position of the last c in s, 0 when there is none
RFind(s, c) ==
    LET hits == {k \in 1..Len(s) : s[k] = c}
    IN  IF hits = {} THEN 0 ELSE CHOOSE k \in hits : \A m \in hits : m <= k

RECURSIVE RStripSlash(_)
RStripSlash(s) ==
    IF s # <<>> /\ s[Len(s)] = ord("/") THEN RStripSlash(SubSeq(s, 1, Len(s) - 1)) ELSE s

\* os.path.basename
basename(p) == SubSeq(p, RFind(p, ord("/")) + 1, Len(p))

\* os.path.dirname
dirname(p) ==
    LET head == SubSeq(p, 1, RFind(p, ord("/")))
    IN  IF head # <<>> /\ \E k \in 1..Len(head) : head[k] # ord("/")
        THEN RStripSlash(head) ELSE head

\* os.path.join(a, b)
join(a, b) ==
    IF b # <<>> /\ b[1] = ord("/") THEN b
    ELSE IF a = <<>> \/ a[Len(a)] = ord("/") THEN a \o b
    ELSE a \o Chars(<<"/">>) \o b

\* os.path.splitext(p)[1]
splitext(p) ==
    LET sep == RFind(p, ord("/"))
        dot == RFind(p, ord("."))
    IN  IF dot > sep /\ \E k \in (sep + 1)..(dot - 1) : p[k] # ord(".")
        THEN SubSeq(p, dot, Len(p)) ELSE <<>>

\* utils.get_file_extension
get_file_extension(filename) == Lower(splitext(filename))

Digit(d) == ord("0") + d

\* str(n) for a natural number n
RECURSIVE Str(_)
Str(n) == IF n < 10 THEN <<Digit(n)>> ELSE Str(n \div 10) \o <<Digit(n % 10)>>

-----------------------------------------------------------------------------
(* Program constants *)

TEMP_DIR == join(Chars(<<"/", "d", "a", "t", "a">>), Chars(<<"t", "e", "m", "p">>))
RAW_ZONE == Chars(<<"r","a","w","-","i","n","g","e","s","t","i","o","n","-","z","o","n","e">>)
OBJECT_PREFIX == Chars(<<"d","o","c","u","m","e","n","t","s","/">>)
INDEX_PREFIX == Chars(<<"d","o","c","u","m","e","n","t","s","_">>)
MINIO_PREFIX == Chars(<<"m","i","n","i","o","/">>)
MINIO_DESC == Chars(<<"D","o","c","u","m","e","n","t"," ","f","r","o","m"," ",
                      "M","i","n","I","O",":"," ">>)
TMP_PREFIX == Chars(<<"/","t","m","p","/","t","m","p">>)
batch_size == 50
VECTOR_DIMS == 384

SupportedText == {Chars(<<".","t","x","t">>), Chars(<<".","m","d">>), Chars(<<".","h","t","m","l">>)}
EXT_CSV == Chars(<<".","c","s","v">>)
EXT_PDF == Chars(<<".","p","d","f">>)

\* the mapping _create_index_with_mapping sends
VectorMapping ==
    [content  |-> "text",
     metadata |-> "object",
     vector   |-> [type |-> "dense_vector", dims |-> VECTOR_DIMS,
                   index |-> TRUE, similarity |-> "cosine"]]

\* the mapping of an index created without a body (utils.ensure_index_exists)
DynamicMapping == <<>>

-----------------------------------------------------------------------------
(* Inputs: file names, sources, chunk texts, file data *)

F_A_TXT == Chars(<<"a", ".", "t", "x", "t">>)
F_B_MD  == Chars(<<"b", ".", "M", "D">>)
F_C_EXE == Chars(<<"c", ".", "e", "x", "e">>)
F_AB_TXT  == Chars(<<"a", ".", "b", ".", "t", "x", "t">>)
F_A_B_TXT == Chars(<<"a", "_", "b", ".", "t", "x", "t">>)
SRC_UPLOAD == Chars(<<"u", "p", "l", "o", "a", "d">>)
SRC_TEAM   == Chars(<<"U", "p", " ", "x">>)
SRC_PATH   == Chars(<<"u", "p", "/", "x">>)
D_EMPTY == <<>>
D_V2    == Chars(<<"v", "2">>)

T_FOX == Chars(<<"r", "e", "d", " ", "f", "o", "x">>)
T_DOG == Chars(<<"R", "e", "d", " ", "d", "o", "g">>)
T_DEN == Chars(<<"d", "o", "g", " ", "d", "e", "n">>)
T_NED == Chars(<<"d", "e", "n", " ", "d", "o", "g">>)
T_RED == Chars(<<"r", "e", "d">>)

\* File data is a sequence of blocks, each as long as the text splitter's
\* chunk_size; the loader and the text splitter (external libraries) make one
\* chunk of every block that holds text, written here as the text of that chunk.
\* A file that has just been created or truncated has no block.
NO_BYTES == <<>>
\* a block of blank characters
BLANK == Chars(<<" ">>)
\* a local variable that has not been assigned
UNSET == <<<<-1>>>>

split_documents(data) == SelectSeq(data, LAMBDA block : block # BLANK)

\* file.write(content) on a file opened with "wb": the bytes go to the start of
\* the file, over what another writer of the same open file has put there
WriteAtStart(old, content) == content \o SubSeq(old, Len(content) + 1, Len(old))

\* embedding_model.embed_documents: one vector per text; the model is opaque,
\* a vector is identified by a code of the text it embeds
Embed(text) == Len(text)
embed_documents(texts) == [k \in 1..Len(texts) |-> Embed(texts[k])]

UploadReq(filename, data, source, description) ==
    [kind |-> "upload", filename |-> filename, data |-> data, source |-> source,
     description |-> description, bucket |-> <<>>, object_path |-> <<>>, prefix |-> <<>>]
MinioReq(bucket, object_path) ==
    [kind |-> "minio", filename |-> <<>>, data |-> UNSET, source |-> <<>>,
     description |-> <<>>, bucket |-> bucket, object_path |-> object_path, prefix |-> <<>>]
ScanReq(bucket, prefix) ==
    [kind |-> "scan", filename |-> <<>>, data |-> UNSET, source |-> <<>>,
     description |-> <<>>, bucket |-> bucket, object_path |-> <<>>, prefix |-> prefix]

U_A1  == UploadReq(F_A_TXT, <<T_FOX, T_DOG>>, SRC_UPLOAD, D_EMPTY)
U_A2  == UploadReq(F_A_TXT, <<T_FOX>>, SRC_UPLOAD, D_V2)
U_B   == UploadReq(F_B_MD, <<T_FOX, T_DOG>>, SRC_TEAM, D_EMPTY)
U_EXE == UploadReq(F_C_EXE, <<T_FOX>>, SRC_UPLOAD, D_EMPTY)
U_BIG == UploadReq(F_A_TXT,
                   [k \in 1..(batch_size + 1) |-> IF k % 2 = 1 THEN T_FOX ELSE T_DOG],
                   SRC_UPLOAD, D_EMPTY)
U_A3  == UploadReq(F_A_TXT, <<T_FOX, T_DOG>>, SRC_UPLOAD, D_V2)
U_B1  == UploadReq(F_B_MD, <<T_FOX>>, SRC_UPLOAD, D_V2)
U_A4  == UploadReq(F_A_TXT, <<T_DEN>>, SRC_UPLOAD, D_V2)
M_A   == MinioReq(RAW_ZONE, OBJECT_PREFIX \o F_A_TXT)
U_C   == UploadReq(F_A_TXT, <<T_FOX>>, SRC_PATH, D_V2)
U_AB  == UploadReq(F_AB_TXT, <<T_FOX>>, SRC_UPLOAD, D_EMPTY)
U_A_B == UploadReq(F_A_B_TXT, <<T_DEN>>, SRC_UPLOAD, D_EMPTY)
U_NONE == UploadReq(F_A_TXT, <<BLANK>>, SRC_UPLOAD, D_EMPTY)
\* POST /minio/scan of the raw zone with the default prefix
S_RAW  == ScanReq(RAW_ZONE, OBJECT_PREFIX)

SmallRequests == {U_A1, U_A2, U_B, U_EXE, M_A}
\* two sources of one slug, two file names of one sanitized form
PairedRequests == {<<U_B, U_C>>, <<U_AB, U_A_B>>}

RECURSIVE SeqsUpTo(_, _)
SeqsUpTo(S, n) ==
    IF n = 0 THEN {<<>>}
    ELSE LET shorter == SeqsUpTo(S, n - 1)
         IN  shorter \cup {Append(q, x) : q \in {r \in shorter : Len(r) = n - 1}, x \in S}

Workers == {1, 2}

-----------------------------------------------------------------------------
(* Ingestion: document_manager.process_document and its callers *)

NoResult == [status |-> "none", indexed_chunks |-> 0, index_name |-> <<>>, filename |-> <<>>]
ErrorResult == [status |-> "error", indexed_chunks |-> 0, index_name |-> <<>>, filename |-> <<>>]

IdleProc ==
    [pc |-> "idle", kind |-> "none",
     file_path |-> <<>>, source |-> <<>>, description |-> <<>>, original_filename |-> <<>>,
     bucket |-> <<>>, object_path |-> <<>>,
     chunks |-> <<>>, filename |-> <<>>, index_name |-> <<>>,
     i |-> 0, j |-> 0, embeddings |-> <<>>,
     content |-> UNSET, orphaned |-> FALSE,
     scanning |-> FALSE, objects |-> <<>>, processed_docs |-> <<>>,
     ret |-> NoResult,
     \* history of the call, not read by the program
     written |-> {}, failedAt |-> "none", ncalls |-> 0, data |-> UNSET, puts |-> 0,
     calls |-> <<>>, upload |-> UNSET]

Free(w) == proc[w].pc \in {"idle", "done", "failed", "scanned"}

\* f with key k set to v (an upsert)
Put(f, k, v) == [x \in DOMAIN f \cup {k} |-> IF x = k THEN v ELSE f[x]]
\* f without key k
Drop(f, k) == [x \in DOMAIN f \ {k} |-> f[x]]

CanFault == faults < MaxFaults

\* history: the call `op` is attempted at chunk offset i + j; `texts` is what an
\* embedding call is given
Called(p, op, texts) == Append(p.calls, [op |-> op, at |-> p.i + p.j, texts |-> texts])

\* mutant: the exception is caught where it is raised and the step is tried again
RaiseSwallowed(p, step) == [p EXCEPT !.failedAt = step, !.ncalls = @ + 1]

\* An exception raised inside the try block of process_document reaches its
\* except clause; `step` names the call that raised.
RaiseIn(p, step) ==
    [p EXCEPT !.pc = "except", !.failedAt = step, !.ncalls = @ + 1,
              !.calls = Called(p, step, <<>>)]

\* mutant: the slug keeps the spaces of the source
slugKeepsSpaces(source) == Lower(Replace(source, ord("/"), ord("_")))

\* source_slug and index_name
slug(source) == Lower(Replace(Replace(source, ord("/"), ord("_")), ord(" "), ord("_")))
IndexName(source) == INDEX_PREFIX \o slug(source)

\* mutant: the id is built from the position inside the batch
RecordIdInBatch(filename, off) ==
    Replace(filename, ord("."), ord("_")) \o Chars(<<"_">>) \o Str(off % batch_size)

\* the id of the record of the chunk at global offset `off`
RecordId(filename, off) == Replace(filename, ord("."), ord("_")) \o Chars(<<"_">>) \o Str(off)

\* where the batch loop goes from offset i: the next batch, or the refresh
LoopPc(i, total) == IF i < total THEN "embed" ELSE "refresh"

\* The file a request handler has open for writing is lost to the path when
\* the path is removed: what the handler then writes goes to the removed file.
Unlinked(procs, w, path, removed) ==
    [o \in Workers |->
        IF o # w /\ removed /\ procs[o].pc = "upload_write" /\ procs[o].file_path = path
        THEN [procs[o] EXCEPT !.orphaned = TRUE] ELSE procs[o]]

\* main.upload_document, lines 54-57: the handler opens /data/temp/<filename>
\* for writing, which creates the file or empties the one that is there, and
\* waits for the upload (await file.read(), line 58). While it waits the event
\* loop may start the handler of another request; the ingestion tasks run on
\* threads of their own.
upload_document(w) ==
    /\ queue # <<>> /\ Head(queue).kind = "upload"
    /\ Free(w)
    /\ LET req  == Head(queue)
           path == join(TEMP_DIR, req.filename)
       IN  /\ fs' = Put(fs, path, NO_BYTES)
           /\ proc' = [proc EXCEPT ![w] =
                  [IdleProc EXCEPT !.pc = "upload_write", !.kind = "upload",
                                   !.file_path = path,
                                   !.source = req.source, !.description = req.description,
                                   !.upload = req.data]]
    /\ queue' = Tail(queue)
    /\ UNCHANGED <<storeVars, hist, faults, tmpCount, rq, rqOther, hashKey>>

\* main.upload_document, lines 58-67: the handler has the upload, writes it to
\* the open file, closes the file and queues process_document
upload_write(w) ==
    LET p == proc[w] IN
    /\ p.pc = "upload_write"
    /\ fs' = IF p.orphaned THEN fs
             ELSE Put(fs, p.file_path, WriteAtStart(fs[p.file_path], p.upload))
    /\ proc' = [proc EXCEPT ![w].pc = "load"]
    /\ UNCHANGED <<storeVars, queue, hist, faults, tmpCount, rq, rqOther, hashKey>>

\* main.fetch_from_minio: queue process_minio_document(bucket, object_path)
fetch_from_minio(w) ==
    /\ queue # <<>> /\ Head(queue).kind = "minio"
    /\ Free(w)
    /\ proc' = [proc EXCEPT ![w] =
           [IdleProc EXCEPT !.pc = "minio_get", !.kind = "minio",
                            !.bucket = Head(queue).bucket,
                            !.object_path = Head(queue).object_path]]
    /\ queue' = Tail(queue)
    /\ UNCHANGED <<fs, storeVars, hist, faults, tmpCount, rq, rqOther, hashKey>>

\* main.scan_minio_bucket: queue document_manager.scan_minio_bucket(bucket, prefix)
scan_minio_bucket(w) ==
    /\ queue # <<>> /\ Head(queue).kind = "scan"
    /\ Free(w)
    /\ proc' = [proc EXCEPT ![w] =
           [IdleProc EXCEPT !.pc = "scan_bucket_exists", !.kind = "scan",
                            !.scanning = TRUE,
                            !.bucket = Head(queue).bucket,
                            !.object_path = Head(queue).prefix]]
    /\ queue' = Tail(queue)
    /\ UNCHANGED <<fs, storeVars, hist, faults, tmpCount, rq, rqOther, hashKey>>

\* a before b in the order of an object listing: by code point, the shorter of
\* two names first when one begins the other
RECURSIVE KeyLess(_, _)
KeyLess(a, b) ==
    IF b = <<>> THEN FALSE
    ELSE IF a = <<>> THEN TRUE
    ELSE IF a[1] = b[1] THEN KeyLess(Tail(a), Tail(b))
    ELSE a[1] < b[1]

\* the elements of a set of names as a listing
RECURSIVE Listing(_)
Listing(names) ==
    IF names = {} THEN <<>>
    ELSE LET first == CHOOSE n \in names : \A o \in names \ {n} : KeyLess(n, o)
         IN  <<first>> \o Listing(names \ {first})

\* minio_client.list_objects(bucket, prefix, recursive=True): the names of the
\* objects of the bucket that begin with the prefix
list_objects(bucket, prefix) ==
    Listing({k[2] : k \in {x \in DOMAIN minioObjects : x[1] = bucket /\ StartsWith(x[2], prefix)}})

\* The worker after its call of process_minio_document has ended with `ret`,
\* `step` naming the call that raised. A task of fetch_from_minio is over. In
\* scan_minio_bucket (lines 80-94) the result or the error is appended to
\* processed_docs and the loop goes to the next object of the listing, or
\* returns processed_docs.
EndCall(p, pc, ret, step) ==
    IF ~p.scanning THEN [p EXCEPT !.pc = pc, !.ret = ret]
    ELSE LET entry == IF pc = "done"
                      THEN [object_name |-> p.object_path, result |-> ret]
                      ELSE [object_name |-> p.object_path, error |-> step]
             docs  == Append(p.processed_docs, entry)
         IN  IF p.objects = <<>>
             THEN [IdleProc EXCEPT !.pc = "scanned", !.kind = "scan", !.scanning = TRUE,
                                   !.bucket = p.bucket, !.processed_docs = docs]
             ELSE [IdleProc EXCEPT !.pc = "minio_get", !.kind = "scan", !.scanning = TRUE,
                                   !.bucket = p.bucket, !.object_path = Head(p.objects),
                                   !.objects = Tail(p.objects), !.processed_docs = docs]

\* scan_minio_bucket, lines 72-74: minio_client.bucket_exists(bucket); the scan
\* of a bucket that does not exist returns an empty list
SMB_BucketExists(w) ==
    LET p == proc[w] IN
    /\ p.pc = "scan_bucket_exists"
    /\ \/ /\ CanFault
          /\ faults' = faults + 1
          /\ proc' = [proc EXCEPT ![w].pc = "failed", ![w].failedAt = "bucket_exists",
                                  ![w].ret = ErrorResult]
       \/ /\ UNCHANGED faults
          /\ proc' = [proc EXCEPT ![w].pc = IF p.bucket \in minioBuckets
                                            THEN "scan_list" ELSE "scanned"]
    /\ UNCHANGED <<fs, storeVars, queue, hist, tmpCount, rq, rqOther, hashKey>>

\* scan_minio_bucket, lines 77-80: the listing is fetched when the loop asks for
\* its first object; the loop then enters process_minio_document for that object
SMB_ListObjects(w) ==
    LET p == proc[w] IN
    /\ p.pc = "scan_list"
    /\ \/ /\ CanFault
          /\ faults' = faults + 1
          /\ proc' = [proc EXCEPT ![w].pc = "failed", ![w].failedAt = "list_objects",
                                  ![w].ret = ErrorResult]
       \/ /\ UNCHANGED faults
          /\ LET objects == list_objects(p.bucket, p.object_path)
             IN  proc' = [proc EXCEPT ![w] =
                     IF objects = <<>> THEN [p EXCEPT !.pc = "scanned"]
                     ELSE [p EXCEPT !.pc = "minio_get", !.object_path = Head(objects),
                                    !.objects = Tail(objects)]]
    /\ UNCHANGED <<fs, storeVars, queue, hist, tmpCount, rq, rqOther, hashKey>>

\* process_minio_document, lines 106-107: fetch the object and read its bytes;
\* when get_object raises, the error is logged and re-raised and
\* process_document is not called
PMD_GetObject(w) ==
    LET p == proc[w] IN
    /\ p.pc = "minio_get"
    /\ \/ /\ <<p.bucket, p.object_path>> \notin DOMAIN minioObjects \/ CanFault
          /\ faults' = IF <<p.bucket, p.object_path>> \in DOMAIN minioObjects
                       THEN faults + 1 ELSE faults
          /\ proc' = [proc EXCEPT ![w] =
                 EndCall([p EXCEPT !.failedAt = "get_object", !.ncalls = @ + 1,
                                   !.calls = Called(p, "get_object", <<>>)],
                         "failed", ErrorResult, "get_object")]
       \/ /\ <<p.bucket, p.object_path>> \in DOMAIN minioObjects
          /\ proc' = [proc EXCEPT ![w].pc = "minio_temp",
                                  ![w].content = minioObjects[<<p.bucket, p.object_path>>],
                                  ![w].ncalls = @ + 1,
                                  ![w].calls = Called(p, "get_object", <<>>)]
          /\ UNCHANGED faults
    /\ UNCHANGED <<fs, storeVars, queue, hist, tmpCount, rq, rqOther, hashKey>>

\* process_minio_document, lines 110-128: write the bytes to a fresh temporary
\* file that carries the object's extension and call process_document on it
process_minio_document(w) ==
    LET p == proc[w] IN
    /\ p.pc = "minio_temp"
    /\ LET temp_file_path == TMP_PREFIX \o Str(tmpCount) \o get_file_extension(p.object_path)
       IN  /\ fs' = Put(fs, temp_file_path, p.content)
           /\ proc' = [proc EXCEPT ![w].pc = "load",
                          ![w].file_path = temp_file_path,
                          ![w].source = MINIO_PREFIX \o p.bucket,
                          ![w].description =
                              MINIO_DESC \o p.bucket \o Chars(<<"/">>) \o p.object_path,
                          ![w].original_filename = basename(p.object_path)]
    /\ tmpCount' = tmpCount + 1
    /\ UNCHANGED <<storeVars, queue, hist, faults, rq, rqOther, hashKey>>

\* mutant: a file of any other extension is read by the text loader
HasLoaderFallback(file_path) == TRUE

\* _get_loader_for_file: TRUE when a loader exists for the file's extension
HasLoader(file_path) ==
    LET ext == get_file_extension(file_path)
    IN  ext \in SupportedText \/ ext = EXT_CSV \/ ext = EXT_PDF

\* lines 192-216: choose the loader, load, split, resolve the file name, attach the
\* metadata, compute the index name
PD_Load(w) ==
    LET p == proc[w] IN
    /\ p.pc = "load"
    /\ \/ \* ValueError: unsupported file type
          /\ ~HasLoader(p.file_path)
          /\ proc' = [proc EXCEPT ![w] = RaiseIn(p, "loader")]
          /\ UNCHANGED faults
       \/ \* loader.load() raises: the file is gone, or cannot be read or parsed
          /\ HasLoader(p.file_path)
          /\ p.file_path \notin DOMAIN fs \/ CanFault
          /\ proc' = [proc EXCEPT ![w] = RaiseIn(p, "load")]
          /\ faults' = IF p.file_path \in DOMAIN fs THEN faults + 1 ELSE faults
       \/ /\ HasLoader(p.file_path)
          /\ p.file_path \in DOMAIN fs
          /\ LET filename == IF p.original_filename # <<>> THEN p.original_filename
                             ELSE basename(p.file_path)
                 metadata == [source |-> p.source, filename |-> filename,
                              description |-> p.description]
                 texts    == split_documents(fs[p.file_path])
             IN  proc' = [proc EXCEPT
                     ![w].chunks = [k \in 1..Len(texts) |->
                                      [page_content |-> texts[k], metadata |-> metadata]],
                     ![w].data = fs[p.file_path],
                     ![w].filename = filename,
                     ![w].index_name = IndexName(p.source),
                     ![w].ncalls = @ + 1, ![w].calls = Called(p, "load", <<>>),
                     ![w].pc = "exists"]
          /\ UNCHANGED faults
    /\ UNCHANGED <<fs, storeVars, queue, hist, tmpCount, rq, rqOther, hashKey>>

\* mutant: the existence check is left out, the index is always created
PD_IndexExistsIgnored(w) ==
    LET p == proc[w] IN
    /\ p.pc = "exists"
    /\ proc' = [proc EXCEPT ![w].pc = "create"]
    /\ UNCHANGED <<fs, storeVars, queue, hist, faults, tmpCount, rq, rqOther, hashKey>>

\* _create_index_with_mapping, line 42: es_client.indices.exists
PD_IndexExists(w) ==
    LET p == proc[w] IN
    /\ p.pc = "exists"
    /\ \/ /\ CanFault
          /\ faults' = faults + 1
          /\ proc' = [proc EXCEPT ![w] = RaiseIn(p, "exists")]
       \/ /\ UNCHANGED faults
          /\ proc' = [proc EXCEPT ![w].ncalls = @ + 1, ![w].calls = Called(p, "exists", <<>>),
                         ![w].pc = IF p.index_name \in DOMAIN esDocs
                                   THEN LoopPc(0, Len(p.chunks)) ELSE "create"]
    /\ UNCHANGED <<fs, storeVars, queue, hist, tmpCount, rq, rqOther, hashKey>>

\* _create_index_with_mapping, line 64: es_client.indices.create; the store
\* rejects the creation of an index that exists
PD_CreateIndex(w) ==
    LET p == proc[w] IN
    /\ p.pc = "create"
    /\ \/ /\ p.index_name \in DOMAIN esDocs \/ CanFault
          /\ faults' = IF p.index_name \in DOMAIN esDocs THEN faults ELSE faults + 1
          /\ proc' = [proc EXCEPT ![w] = RaiseIn(p, "create")]
          /\ UNCHANGED storeVars
       \/ /\ p.index_name \notin DOMAIN esDocs
          /\ esDocs' = Put(esDocs, p.index_name, <<>>)
          /\ esSearchable' = Put(esSearchable, p.index_name, <<>>)
          /\ esMapping' = Put(esMapping, p.index_name, VectorMapping)
          /\ proc' = [proc EXCEPT ![w].ncalls = @ + 1, ![w].calls = Called(p, "create", <<>>),
                                  ![w].pc = LoopPc(0, Len(p.chunks))]
          /\ UNCHANGED <<faults, minioBuckets, minioObjects>>
    /\ UNCHANGED <<fs, queue, hist, tmpCount, rq, rqOther, hashKey>>

\* mutant: a lock per (index, file name) keeps a second ingestion of the same
\* file out of the batch loop while another one is writing
PD_EmbedLocked(w) ==
    LET p == proc[w] IN
    /\ p.pc = "embed"
    /\ \A o \in Workers \ {w} :
          ~(proc[o].pc = "index" /\ proc[o].index_name = p.index_name
                                /\ proc[o].filename = p.filename)
    /\ \/ /\ CanFault
          /\ faults' = faults + 1
          /\ proc' = [proc EXCEPT ![w] = RaiseIn(p, "embed")]
       \/ /\ UNCHANGED faults
          /\ proc' = [proc EXCEPT
                 ![w].embeddings =
                     embed_documents([k \in 1..(Min(p.i + batch_size, Len(p.chunks)) - p.i)
                                        |-> p.chunks[p.i + k].page_content]),
                 ![w].j = 0, ![w].ncalls = @ + 1,
                 ![w].calls = Called(p, "embed", [k \in 1..(Min(p.i + batch_size, Len(p.chunks)) - p.i)
                                        |-> p.chunks[p.i + k].page_content]), ![w].pc = "index"]
    /\ UNCHANGED <<fs, storeVars, queue, hist, tmpCount, rq, rqOther, hashKey>>

\* mutant: the batch runs from offset i to the end of the chunk list
BatchToEnd(p) == SubSeq(p.chunks, p.i + 1, Len(p.chunks))

\* lines 225-231: the batch at offset i and its embeddings
Batch(p) == SubSeq(p.chunks, p.i + 1, Min(p.i + batch_size, Len(p.chunks)))

PD_Embed(w) ==
    LET p == proc[w] IN
    /\ p.pc = "embed"
    /\ \/ /\ CanFault
          /\ faults' = faults + 1
          /\ proc' = [proc EXCEPT ![w] = RaiseIn(p, "embed")]
       \/ /\ UNCHANGED faults
          /\ LET batch == Batch(p)
                 texts == [k \in 1..Len(batch) |-> batch[k].page_content]
             IN  proc' = [proc EXCEPT ![w].embeddings = embed_documents(texts),
                                      ![w].j = 0, ![w].ncalls = @ + 1,
                                      ![w].calls = Called(p, "embed", texts), ![w].pc = "index"]
    /\ UNCHANGED <<fs, storeVars, queue, hist, tmpCount, rq, rqOther, hashKey>>

\* mutant: the record is written without an id, the store assigns a fresh one
PD_IndexChunkAutoId(w) ==
    LET p == proc[w] IN
    /\ p.pc = "index"
    /\ \/ /\ CanFault
          /\ faults' = faults + 1
          /\ proc' = [proc EXCEPT ![w] = RaiseIn(p, "index")]
          /\ UNCHANGED storeVars
       \/ /\ UNCHANGED faults
          /\ LET last == p.i + p.j + 1 = Min(p.i + batch_size, Len(p.chunks))
                 chunk == p.chunks[p.i + p.j + 1]
                 id    == Chars(<<"#">>) \o Str(Cardinality(DOMAIN esDocs[p.index_name]))
                 doc   == [content |-> chunk.page_content, metadata |-> chunk.metadata,
                           vector |-> p.embeddings[p.j + 1]]
             IN  /\ esDocs' = [esDocs EXCEPT ![p.index_name] = Put(@, id, doc)]
                 /\ proc' = [proc EXCEPT
                        ![w].written = @ \cup {id},
                        ![w].ncalls = @ + 1, ![w].calls = Called(p, "index", <<>>),
                        ![w].j = IF last THEN 0 ELSE p.j + 1,
                        ![w].i = IF last THEN p.i + batch_size ELSE p.i,
                        ![w].pc = IF last THEN LoopPc(p.i + batch_size, Len(p.chunks))
                                  ELSE "index"]
          /\ UNCHANGED <<esSearchable, esMapping, minioBuckets, minioObjects>>
    /\ UNCHANGED <<fs, queue, hist, tmpCount, rq, rqOther, hashKey>>

\* lines 234-243: es_client.index of the chunk at position j of the batch, an
\* upsert under the id of its global offset i + j
PD_IndexChunk(w) ==
    LET p == proc[w] IN
    /\ p.pc = "index"
    /\ \/ /\ CanFault
          /\ faults' = faults + 1
          /\ proc' = [proc EXCEPT ![w] = RaiseIn(p, "index")]
          /\ UNCHANGED storeVars
       \/ /\ UNCHANGED faults
          /\ LET batch == Batch(p)
                 chunk == batch[p.j + 1]
                 id    == RecordId(p.filename, p.i + p.j)
                 doc   == [content |-> chunk.page_content, metadata |-> chunk.metadata,
                           vector |-> p.embeddings[p.j + 1]]
                 last  == p.j + 1 = Min(Len(batch), Len(p.embeddings))
             IN  /\ esDocs' = [esDocs EXCEPT ![p.index_name] = Put(@, id, doc)]
                 /\ proc' = [proc EXCEPT
                        ![w].written = @ \cup {id},
                        ![w].ncalls = @ + 1, ![w].calls = Called(p, "index", <<>>),
                        ![w].j = IF last THEN 0 ELSE p.j + 1,
                        ![w].i = IF last THEN p.i + batch_size ELSE p.i,
                        ![w].pc = IF last THEN LoopPc(p.i + batch_size, Len(p.chunks))
                                  ELSE "index"]
          /\ UNCHANGED <<esSearchable, esMapping, minioBuckets, minioObjects>>
    /\ UNCHANGED <<fs, queue, hist, tmpCount, rq, rqOther, hashKey>>

\* mutant: the refresh is left out
PD_RefreshSkipped(w) ==
    LET p == proc[w] IN
    /\ p.pc = "refresh"
    /\ proc' = [proc EXCEPT ![w].pc = IF ~StartsWith(p.source, MINIO_PREFIX)
                                      THEN "bucket_exists" ELSE "remove"]
    /\ UNCHANGED <<fs, storeVars, queue, hist, faults, tmpCount, rq, rqOther, hashKey>>

\* mutant: the raw bytes are stored whatever the source is
PD_RefreshAlwaysStores(w) ==
    LET p == proc[w] IN
    /\ p.pc = "refresh"
    /\ \/ /\ CanFault
          /\ faults' = faults + 1
          /\ proc' = [proc EXCEPT ![w] = RaiseIn(p, "refresh")]
          /\ UNCHANGED storeVars
       \/ /\ UNCHANGED faults
          /\ esSearchable' = [esSearchable EXCEPT ![p.index_name] = esDocs[p.index_name]]
          /\ proc' = [proc EXCEPT ![w].ncalls = @ + 1,
                                  ![w].calls = Called(p, "refresh", <<>>), ![w].pc = "bucket_exists"]
          /\ UNCHANGED <<esDocs, esMapping, minioBuckets, minioObjects>>
    /\ UNCHANGED <<fs, queue, hist, tmpCount, rq, rqOther, hashKey>>

\* line 246: es_client.indices.refresh makes the stored records searchable;
\* line 249 then decides whether the raw bytes go to the object store
PD_Refresh(w) ==
    LET p == proc[w] IN
    /\ p.pc = "refresh"
    /\ \/ /\ CanFault
          /\ faults' = faults + 1
          /\ proc' = [proc EXCEPT ![w] = RaiseIn(p, "refresh")]
          /\ UNCHANGED storeVars
       \/ /\ UNCHANGED faults
          /\ esSearchable' = [esSearchable EXCEPT ![p.index_name] = esDocs[p.index_name]]
          /\ proc' = [proc EXCEPT ![w].ncalls = @ + 1, ![w].calls = Called(p, "refresh", <<>>),
                         ![w].pc = IF ~StartsWith(p.source, MINIO_PREFIX)
                                   THEN "bucket_exists" ELSE "remove"]
          /\ UNCHANGED <<esDocs, esMapping, minioBuckets, minioObjects>>
    /\ UNCHANGED <<fs, queue, hist, tmpCount, rq, rqOther, hashKey>>

\* line 252: minio_client.bucket_exists(raw_zone)
PD_BucketExists(w) ==
    LET p == proc[w] IN
    /\ p.pc = "bucket_exists"
    /\ \/ /\ CanFault
          /\ faults' = faults + 1
          /\ proc' = [proc EXCEPT ![w] = RaiseIn(p, "bucket_exists")]
       \/ /\ UNCHANGED faults
          /\ proc' = [proc EXCEPT ![w].ncalls = @ + 1,
                                  ![w].calls = Called(p, "bucket_exists", <<>>),
                         ![w].pc = IF RAW_ZONE \in minioBuckets THEN "read_file" ELSE "make_bucket"]
    /\ UNCHANGED <<fs, storeVars, queue, hist, tmpCount, rq, rqOther, hashKey>>

\* line 253: minio_client.make_bucket(raw_zone); the store rejects the creation
\* of a bucket that exists
PD_MakeBucket(w) ==
    LET p == proc[w] IN
    /\ p.pc = "make_bucket"
    /\ \/ /\ RAW_ZONE \in minioBuckets \/ CanFault
          /\ faults' = IF RAW_ZONE \in minioBuckets THEN faults ELSE faults + 1
          /\ proc' = [proc EXCEPT ![w] = RaiseIn(p, "make_bucket")]
          /\ UNCHANGED minioBuckets
       \/ /\ RAW_ZONE \notin minioBuckets
          /\ minioBuckets' = minioBuckets \cup {RAW_ZONE}
          /\ proc' = [proc EXCEPT ![w].ncalls = @ + 1,
                                  ![w].calls = Called(p, "make_bucket", <<>>), ![w].puts = @ + 1,
                                  ![w].pc = "read_file"]
          /\ UNCHANGED faults
    /\ UNCHANGED <<fs, esDocs, esSearchable, esMapping, minioObjects, queue, hist,
                   tmpCount, rq, rqOther, hashKey>>

\* lines 256-257: open the file again and read its bytes
PD_ReadFile(w) ==
    LET p == proc[w] IN
    /\ p.pc = "read_file"
    /\ IF p.file_path \notin DOMAIN fs
       THEN proc' = [proc EXCEPT ![w] = RaiseIn(p, "read_file")]
       ELSE proc' = [proc EXCEPT ![w].content = fs[p.file_path], ![w].pc = "put"]
    /\ UNCHANGED <<fs, storeVars, queue, hist, faults, tmpCount, rq, rqOther, hashKey>>

\* lines 258-266: put the bytes that were read under documents/<filename>
PD_PutObject(w) ==
    LET p == proc[w] IN
    /\ p.pc = "put"
    /\ \/ /\ CanFault
          /\ faults' = faults + 1
          /\ proc' = [proc EXCEPT ![w] = RaiseIn(p, "put_object")]
          /\ UNCHANGED minioObjects
       \/ /\ minioObjects' = Put(minioObjects, <<RAW_ZONE, OBJECT_PREFIX \o p.filename>>,
                                 p.content)
          /\ proc' = [proc EXCEPT ![w].ncalls = @ + 1,
                                  ![w].calls = Called(p, "put_object", <<>>), ![w].puts = @ + 1,
                                  ![w].pc = "remove"]
          /\ UNCHANGED faults
    /\ UNCHANGED <<fs, esDocs, esSearchable, esMapping, minioBuckets, queue, hist,
                   tmpCount, rq, rqOther, hashKey>>

\* the summary of a finished process_document call
Summary(w, p, status) ==
    [worker |-> w, filename |-> p.filename, index_name |-> p.index_name,
     source |-> p.source,
     file_path |-> p.file_path, data |-> p.data, written |-> p.written,
     status |-> status, failedAt |-> p.failedAt,
     count |-> IF p.index_name \in DOMAIN esDocs
               THEN Cardinality(DOMAIN esDocs[p.index_name]) ELSE 0]

\* lines 272-281: delete the file when it lies in /data/temp, return the result
PD_Return(w) ==
    LET p == proc[w] IN
    /\ p.pc = "remove"
    /\ IF dirname(p.file_path) = TEMP_DIR /\ p.file_path \notin DOMAIN fs
       THEN \* os.remove raises FileNotFoundError
            /\ proc' = [proc EXCEPT ![w] = RaiseIn(p, "remove")]
            /\ UNCHANGED <<fs, hist>>
       ELSE LET ret == [status |-> "success", indexed_chunks |-> Len(p.chunks),
                        index_name |-> p.index_name, filename |-> p.filename]
            IN  /\ fs' = IF dirname(p.file_path) = TEMP_DIR THEN Drop(fs, p.file_path) ELSE fs
                /\ proc' = Unlinked([proc EXCEPT ![w] = EndCall(p, "done", ret, "none")],
                                    w, p.file_path, dirname(p.file_path) = TEMP_DIR)
                /\ hist' = Append(hist, Summary(w, p, "success"))
    /\ UNCHANGED <<storeVars, queue, faults, tmpCount, rq, rqOther, hashKey>>

\* mutant: the except clause re-raises without deleting the file
PD_ExceptNoCleanup(w) ==
    LET p == proc[w] IN
    /\ p.pc = "except"
    /\ proc' = [proc EXCEPT ![w] = EndCall(p, "failed", ErrorResult, p.failedAt)]
    /\ hist' = Append(hist, Summary(w, p, "error"))
    /\ UNCHANGED <<fs, storeVars, queue, faults, tmpCount, rq, rqOther, hashKey>>

\* lines 283-288: the except clause: delete the file when it exists and lies in
\* /data/temp, then re-raise
PD_Except(w) ==
    LET p == proc[w]
        removed == p.file_path \in DOMAIN fs /\ dirname(p.file_path) = TEMP_DIR
    IN
    /\ p.pc = "except"
    /\ fs' = IF removed THEN Drop(fs, p.file_path) ELSE fs
    /\ proc' = Unlinked([proc EXCEPT ![w] = EndCall(p, "failed", ErrorResult, p.failedAt)],
                        w, p.file_path, removed)
    /\ hist' = Append(hist, Summary(w, p, "error"))
    /\ UNCHANGED <<storeVars, queue, faults, tmpCount, rq, rqOther, hashKey>>

-----------------------------------------------------------------------------
(* Retrieval: retrieval.retrieve_documents *)


\* Python floats are IEEE-754 binary64 numbers and every operation on them is
\* rounded to nearest, ties to even. A non-negative float is the pair <<m, e>>
\* of value m * 2^e, with m an odd natural number below 2^53 (zero is
\* <<0, 0>>), so that equal floats are equal pairs. Naturals are written in
\* base 2^14, least significant digit first and without leading zeros, to stay
\* inside the checker's integers. Values stay in the normal range of the format.
LIMB_BITS == 14
LIMB == 2^LIMB_BITS
MANT_BITS == 53

Min2(a, b) == IF a <= b THEN a ELSE b

RECURSIVE Pow2(_)
Pow2(n) == IF n = 0 THEN 1 ELSE 2 * Pow2(n - 1)

RECURSIVE NTrim(_)
NTrim(a) == IF a # <<>> /\ a[Len(a)] = 0 THEN NTrim(SubSeq(a, 1, Len(a) - 1)) ELSE a

RECURSIVE NFromInt(_)
NFromInt(n) == IF n = 0 THEN <<>> ELSE <<n % LIMB>> \o NFromInt(n \div LIMB)

RECURSIVE NAddC(_, _, _)
NAddC(a, b, c) ==
    IF a = <<>> /\ b = <<>> THEN (IF c = 0 THEN <<>> ELSE <<c>>)
    ELSE LET x == (IF a = <<>> THEN 0 ELSE a[1]) + (IF b = <<>> THEN 0 ELSE b[1]) + c
         IN  <<x % LIMB>> \o NAddC(IF a = <<>> THEN <<>> ELSE Tail(a),
                                   IF b = <<>> THEN <<>> ELSE Tail(b), x \div LIMB)
NAdd(a, b) == NAddC(a, b, 0)

\* a - b for a >= b
RECURSIVE NSubB(_, _, _)
NSubB(a, b, c) ==
    IF a = <<>> THEN <<>>
    ELSE LET x == a[1] - (IF b = <<>> THEN 0 ELSE b[1]) - c
         IN  <<x % LIMB>> \o NSubB(Tail(a), IF b = <<>> THEN <<>> ELSE Tail(b),
                                   IF x < 0 THEN 1 ELSE 0)
NSub(a, b) == NTrim(NSubB(a, b, 0))

\* -1, 0, 1 as a is below, equal to, above b
RECURSIVE NCmpTop(_, _, _)
NCmpTop(a, b, k) ==
    IF k = 0 THEN 0
    ELSE IF a[k] < b[k] THEN -1
    ELSE IF a[k] > b[k] THEN 1
    ELSE NCmpTop(a, b, k - 1)
NCmp(a, b) ==
    IF Len(a) < Len(b) THEN -1
    ELSE IF Len(a) > Len(b) THEN 1
    ELSE NCmpTop(a, b, Len(a))

\* a * k + c for a digit k
RECURSIVE NMulSmallC(_, _, _)
NMulSmallC(a, k, c) ==
    IF a = <<>> THEN (IF c = 0 THEN <<>> ELSE <<c>>)
    ELSE LET x == a[1] * k + c
         IN  <<x % LIMB>> \o NMulSmallC(Tail(a), k, x \div LIMB)
NMulSmall(a, k) == IF k = 0 THEN <<>> ELSE NMulSmallC(a, k, 0)

RECURSIVE NMul(_, _)
NMul(a, b) ==
    IF a = <<>> \/ b = <<>> THEN <<>>
    ELSE LET rest == NMul(a, Tail(b))
         IN  NAdd(NMulSmall(a, b[1]), IF rest = <<>> THEN <<>> ELSE <<0>> \o rest)

\* <<a \div k, a % k>> for a digit k > 0
RECURSIVE NDivSmallR(_, _)
NDivSmallR(a, k) ==
    IF a = <<>> THEN <<<<>>, 0>>
    ELSE LET hi == NDivSmallR(Tail(a), k)
             x  == hi[2] * LIMB + a[1]
         IN  <<(<<x \div k>>) \o hi[1], x % k>>
NDivSmall(a, k) == LET qr == NDivSmallR(a, k) IN <<NTrim(qr[1]), qr[2]>>

\* a * 2^n
NShl(a, n) ==
    IF a = <<>> THEN <<>>
    ELSE [k \in 1..(n \div LIMB_BITS) |-> 0] \o NMulSmall(a, Pow2(n % LIMB_BITS))

\* a \div 2^n
NShr(a, n) ==
    IF n \div LIMB_BITS >= Len(a) THEN <<>>
    ELSE NDivSmall(SubSeq(a, n \div LIMB_BITS + 1, Len(a)), Pow2(n % LIMB_BITS))[1]

RECURSIVE BitLength(_)
BitLength(n) == IF n = 0 THEN 0 ELSE 1 + BitLength(n \div 2)
NBitLen(a) == IF a = <<>> THEN 0 ELSE (Len(a) - 1) * LIMB_BITS + BitLength(a[Len(a)])

\* the largest digit d with b * d <= r, from an estimate that is not below it
RECURSIVE Correct(_, _, _)
Correct(r, b, d) == IF NCmp(NMulSmall(b, d), r) > 0 THEN Correct(r, b, d - 1) ELSE d

\* r \div b for r < b * 2^14 and b with its leading digit at least 2^13: the
\* two leading digits of r over the leading digit of b, less at most two
QuotientDigit(r, b) ==
    IF NCmp(r, b) < 0 THEN 0
    ELSE LET n   == Len(b)
             top == (IF Len(r) > n THEN r[n + 1] ELSE 0) * LIMB + r[n]
         IN  Correct(r, b, Min2(LIMB - 1, top \div b[n]))

\* Long division of the digits k .. 1 of a by b, from the leading digit down:
\* q holds the digits of the quotient found so far (no leading zero is kept),
\* r the remainder they leave. NDivStep brings down the digit k of a,
\* NDivDigit puts the digit d of the quotient before q and takes b * d from r.
RECURSIVE NDivLimbs(_, _, _, _, _)
RECURSIVE NDivStep(_, _, _, _, _)
RECURSIVE NDivDigit(_, _, _, _, _, _)
NDivDigit(a, b, k, q, r, d) ==
    IF d = 0 THEN NDivLimbs(a, b, k - 1, IF q = <<>> THEN q ELSE <<0>> \o q, r)
    ELSE NDivLimbs(a, b, k - 1, <<d>> \o q, NSub(r, NMulSmall(b, d)))
NDivStep(a, b, k, q, r) == NDivDigit(a, b, k, q, r, QuotientDigit(r, b))
NDivLimbs(a, b, k, q, r) ==
    IF k = 0 THEN <<q, r>> ELSE NDivStep(a, b, k, q, NTrim(<<a[k]>> \o r))

\* <<a \div b, a % b * 2^s>> for b > 0, where s brings the leading digit of b
\* to at least 2^13
NDivNormal(a, b) == NDivLimbs(a, b, Len(a), <<>>, <<>>)
NDivMod(a, b) ==
    NDivNormal(NShl(a, LIMB_BITS - BitLength(b[Len(b)])),
               NShl(b, LIMB_BITS - BitLength(b[Len(b)])))

RECURSIVE TrailingZeros(_)
TrailingZeros(n) == IF n % 2 = 1 THEN 0 ELSE 1 + TrailingZeros(n \div 2)
RECURSIVE NTrailingZeros(_)
NTrailingZeros(a) ==
    IF a[1] = 0 THEN LIMB_BITS + NTrailingZeros(Tail(a)) ELSE TrailingZeros(a[1])

FZERO == <<<<>>, 0>>

\* the pair of m * 2^e with m made odd
Canon(m, e) ==
    IF m = <<>> THEN FZERO
    ELSE <<NShr(m, NTrailingZeros(m)), e + NTrailingZeros(m)>>

\* q2 * 2^(e - 1) halved to a multiple of 2^e, to nearest and ties to even:
\* q2 is the number cut one bit below the last bit kept, sticky tells whether
\* any bit below that one was set
RoundHalfEven(q2, sticky, e) ==
    LET up == q2[1] % 2 = 1 /\ (sticky \/ (q2[1] \div 2) % 2 = 1)
    IN  Canon(NShr(IF up THEN NAdd(q2, <<2>>) ELSE q2, 1), e)

\* m * 2^e rounded to 53 significant bits, to nearest and ties to even
Round(m, e) ==
    IF NBitLen(m) <= MANT_BITS THEN Canon(m, e)
    ELSE RoundHalfEven(NShr(m, NBitLen(m) - MANT_BITS - 1),
                       NTrailingZeros(m) < NBitLen(m) - MANT_BITS - 1,
                       e + NBitLen(m) - MANT_BITS)

\* float(n) for a natural number n
FromInt(n) == Canon(NFromInt(n), 0)

FMul(a, b) ==
    IF a[1] = <<>> \/ b[1] = <<>> THEN FZERO ELSE Round(NMul(a[1], b[1]), a[2] + b[2])

\* a + b: a number below a quarter of the last bit of the other one is lost in
\* the rounding; otherwise the mantissas are added at the lower exponent
FAdd(a, b) ==
    IF a[1] = <<>> THEN b
    ELSE IF b[1] = <<>> THEN a
    ELSE IF NBitLen(a[1]) + a[2] > NBitLen(b[1]) + b[2] + MANT_BITS + 2 THEN a
    ELSE IF NBitLen(b[1]) + b[2] > NBitLen(a[1]) + a[2] + MANT_BITS + 2 THEN b
    ELSE LET e0 == IF a[2] <= b[2] THEN a[2] ELSE b[2]
         IN  Round(NAdd(NShl(a[1], a[2] - e0), NShl(b[1], b[2] - e0)), e0)

\* twice the quotient of a division, plus one when it left a remainder
WithSticky(qr) == NAddC(qr[1], qr[1], IF qr[2] = <<>> THEN 0 ELSE 1)

\* a / b for b > 0: the quotient of the mantissas to at least 55 bits (the
\* mantissa of a is shifted by s bits for that), with one more bit that records
\* whether the division left a remainder
FDivShifted(a, b, s) ==
    Round(WithSticky(NDivMod(NShl(a[1], s), b[1])), a[2] - b[2] - s - 1)
FDiv(a, b) ==
    IF a[1] = <<>> THEN FZERO
    ELSE FDivShifted(a, b, MANT_BITS + 2 + NBitLen(b[1]) - NBitLen(a[1]))

\* -1, 0, 1 as a is below, equal to, above b
FCmp(a, b) ==
    IF a[1] = <<>> \/ b[1] = <<>>
    THEN (IF a[1] = b[1] THEN 0 ELSE IF a[1] = <<>> THEN -1 ELSE 1)
    ELSE LET ha == NBitLen(a[1]) + a[2]
             hb == NBitLen(b[1]) + b[2]
             e0 == IF a[2] <= b[2] THEN a[2] ELSE b[2]
         IN  IF ha < hb THEN -1
             ELSE IF ha > hb THEN 1
             ELSE NCmp(NShl(a[1], a[2] - e0), NShl(b[1], b[2] - e0))
FLe(a, b) == FCmp(a, b) <= 0
FLt(a, b) == FCmp(a, b) < 0
\* min(a, b) and max(a, b) of Python: the first argument wins a tie
FMin(a, b) == IF FLt(b, a) THEN b ELSE a
FMax(a, b) == IF FLt(a, b) THEN b ELSE a

\* the float nearest to n / d: float(n) / float(d), and the value of a decimal
\* literal with that quotient
Flt(n, d) == FDiv(FromInt(n), FromInt(d))
TEN == FromInt(10)

\* the characters str.isspace() accepts, on which str.split() splits
WHITESPACE ==
    9..13 \cup 28..32 \cup {133, 160, 5760} \cup 8192..8202
          \cup {8232, 8233, 8239, 8287, 12288}
IsSpace(c) == c \in WHITESPACE

\* set(s.split()): the maximal runs of non-whitespace characters of s
WordSet(s) ==
    {SubSeq(s, a, b) : <<a, b>> \in
        {ab \in (1..Len(s)) \X (1..Len(s)) :
            /\ ab[1] <= ab[2]
            /\ \A k \in ab[1]..ab[2] : ~IsSpace(s[k])
            /\ ab[1] = 1 \/ IsSpace(s[ab[1] - 1])
            /\ ab[2] = Len(s) \/ IsSpace(s[ab[2] + 1])}}

\* hash(content): siphash13 of the string under the key the interpreter draws
\* at start-up, 64 bits wide. Equal strings have equal hashes, and since there
\* are more strings than hash values, different strings share one: which ones
\* depends on the key. A key is written as the set of the classes of different
\* strings it sends to one hash value, and a hash value as one string that has
\* it, the same for all the strings of a class.
hash(s) ==
    LET classes == {class \in hashKey : s \in class}
    IN  IF classes = {} THEN s
        ELSE CHOOSE x \in (CHOOSE class \in classes : TRUE) : TRUE

\* the pairs of contents a key may send to one hash value
CollidingPairs == {{T_DEN, T_NED}}

\* the keys told apart by the contents of a store: the ones under which no two
\* of them collide, and the ones under which one of the pairs does
HashKeys(contents) ==
    {{}} \cup {{pair} : pair \in {p \in CollidingPairs : p \subseteq contents}}

\* the contents of the records of the store
StoredContents ==
    UNION {{esDocs[index][id].content : id \in DOMAIN esDocs[index]} : index \in DOMAIN esDocs}

\* line 44: vector_max_score
vector_max_score == FromInt(2)

\* lines 46-54: the candidates of the vector path
VectorDocs(hits) ==
    [k \in 1..Len(hits) |->
        [content |-> hits[k].source.content, metadata |-> hits[k].source.metadata,
         raw_score |-> hits[k].score,
         score |-> FMul(FDiv(hits[k].score, vector_max_score), TEN),
         search_type |-> "semantic"]]

\* line 76: keyword_max_score
RECURSIVE MaxScore(_)
MaxScore(hits) ==
    IF Len(hits) = 1 THEN hits[1].score
    ELSE LET m == MaxScore(Tail(hits)) IN IF FLe(m, hits[1].score) THEN hits[1].score ELSE m
KeywordMaxScore(hits) == IF hits # <<>> THEN MaxScore(hits) ELSE FromInt(1)

\* lines 78-86: the candidates of the keyword path
KeywordDocs(hits) ==
    [k \in 1..Len(hits) |->
        [content |-> hits[k].source.content, metadata |-> hits[k].source.metadata,
         raw_score |-> hits[k].score,
         score |-> FMul(FDiv(hits[k].score, KeywordMaxScore(hits)), TEN),
         search_type |-> "keyword"]]

\* mutant: the keyword candidates are concatenated first
AllResultsKeywordFirst(vector_docs, keyword_docs) == keyword_docs \o vector_docs

\* line 92: all_results
AllResults(vector_docs, keyword_docs) == vector_docs \o keyword_docs

\* lines 95-102: keep the first candidate of each content hash
RECURSIVE Unique(_, _)
Unique(docs, seen_content) ==
    IF docs = <<>> THEN <<>>
    ELSE LET content_hash == hash(docs[1].content)
         IN  IF content_hash \notin seen_content
             THEN <<docs[1]>> \o Unique(Tail(docs), seen_content \cup {content_hash})
             ELSE Unique(Tail(docs), seen_content)

\* lines 111-114
QueryCoverage(query, content) ==
    LET query_words   == WordSet(Lower(query))
        content_words == WordSet(Lower(content))
    IN  IF query_words # {}
        THEN FDiv(FromInt(Cardinality(query_words \cap content_words)),
                  FromInt(Cardinality(query_words)))
        ELSE FromInt(0)

\* line 117
LENGTH_NORM == 1000
LengthFactor(content) == FMin(FromInt(1), FDiv(FromInt(Len(content)), FromInt(LENGTH_NORM)))

\* lines 120-136
semantic_weight == Flt(6, 10)
lexical_weight  == Flt(3, 10)
length_weight   == Flt(1, 10)
keyword_damping == Flt(7, 10)

\* lines 138-142
RerankFactors(query, result) ==
    [original_score |-> result.score,
     query_coverage |-> QueryCoverage(query, result.content),
     length_factor  |-> LengthFactor(result.content)]

\* mutant: keyword results are not damped
ScoreFromUndamped(search_type, factors) ==
    FAdd(FAdd(FMul(semantic_weight, factors.original_score),
              FMul(FMul(lexical_weight, factors.query_coverage), TEN)),
         FMul(FMul(length_weight, factors.length_factor), TEN))

\* mutant: the length term is left out
ScoreFromNoLength(search_type, factors) ==
    LET base == IF search_type = "semantic" THEN semantic_weight
                ELSE FMul(semantic_weight, keyword_damping)
    IN  FAdd(FMul(base, factors.original_score),
             FMul(FMul(lexical_weight, factors.query_coverage), TEN))

\* lines 125-136: the score from the factors of lines 111-117
ScoreFrom(search_type, factors) ==
    LET base == IF search_type = "semantic" THEN semantic_weight
                ELSE FMul(semantic_weight, keyword_damping)
    IN  FAdd(FAdd(FMul(base, factors.original_score),
                  FMul(FMul(lexical_weight, factors.query_coverage), TEN)),
             FMul(FMul(length_weight, factors.length_factor), TEN))

RerankedScore(query, result) == ScoreFrom(result.search_type, RerankFactors(query, result))

\* lines 138-143: the candidate with its rerank_factors and its new score
Reranked(result, factors) ==
    [content |-> result.content, metadata |-> result.metadata,
     raw_score |-> result.raw_score, score |-> ScoreFrom(result.search_type, factors),
     search_type |-> result.search_type, rerank_factors |-> factors]

\* lines 105-143: every surviving candidate gets rerank_factors and its new score
Rerank(query, unique_results) ==
    [k \in 1..Len(unique_results) |->
        Reranked(unique_results[k], RerankFactors(query, unique_results[k]))]

\* mutant: a sort that is not stable, x goes in front of the elements of equal score
RECURSIVE InsertDescTiesFirst(_, _)
InsertDescTiesFirst(sorted, x) ==
    IF sorted = <<>> THEN <<x>>
    ELSE IF FLe(sorted[1].score, x.score) THEN <<x>> \o sorted
    ELSE <<sorted[1]>> \o InsertDescTiesFirst(Tail(sorted), x)

\* lines 146-150: sorted(..., key=score, reverse=True), a stable sort: x goes
\* behind every element whose score is not smaller
RECURSIVE InsertDesc(_, _)
InsertDesc(sorted, x) ==
    IF sorted = <<>> THEN <<x>>
    ELSE IF FLt(sorted[1].score, x.score) THEN <<x>> \o sorted
    ELSE <<sorted[1]>> \o InsertDesc(Tail(sorted), x)

RECURSIVE SortedResults(_)
SortedResults(docs) ==
    IF docs = <<>> THEN <<>>
    ELSE InsertDesc(SortedResults(SubSeq(docs, 1, Len(docs) - 1)), docs[Len(docs)])

\* mutant: the list is cut at the number of candidates requested from each path
SliceAtFetchSize(s, top_k) == SubSeq(s, 1, Min(top_k * 2, Len(s)))

\* line 153: sorted_results[:top_k]
Slice(s, top_k) == SubSeq(s, 1, Min(top_k, Len(s)))

\* mutant: only the rerank breakdown is deleted
CleanedKeepsRawScore(result) ==
    [f \in DOMAIN result \ {"rerank_factors"} |-> result[f]]

\* lines 156-160: raw_score and rerank_factors are deleted from the entry
Cleaned(result) ==
    [f \in DOMAIN result \ {"raw_score", "rerank_factors"} |-> result[f]]

\* lines 156-160: the loop over final_results
CleanedResults(final_results) ==
    [k \in 1..Len(final_results) |-> Cleaned(final_results[k])]

\* lines 91-167 as one function of the two candidate lists

FinalResults(query, top_k, vector_docs, keyword_docs) ==
    LET unique_results == Unique(AllResults(vector_docs, keyword_docs), {})
        sorted_results == SortedResults(Rerank(query, unique_results))
        final_results  == Slice(sorted_results, top_k)
    IN  CleanedResults(final_results)

NoPayload == [status |-> "none", query |-> <<>>, index |-> <<>>, result_count |-> 0,
              results |-> <<>>]

IdleQuery ==
    [pc |-> "idle", query |-> <<>>, index_name |-> <<>>, top_k |-> 0,
     vector_docs |-> <<>>, keyword_docs |-> <<>>, ret |-> NoPayload,
     \* history of the call, not read by the program
     vfailed |-> FALSE, kfailed |-> FALSE, searches |-> 0,
     khits |-> -1, embeds |-> 0, efailed |-> FALSE]


\* Inputs of retrieve_documents
Q_RED   == Chars(<<"R", "e", "d">>)
Q_DOG   == Chars(<<"d", "o", "g", " ", " ", "x">>)
Q_BLANK == Chars(<<" ">>)
Queries == {Q_RED, Q_DOG, Q_BLANK}
QueryIndexes == {IndexName(SRC_UPLOAD), IndexName(SRC_TEAM)}
MaxTopK == 2

\* raw scores the store may report: cosine similarity + 1 lies in [0, 2], a
\* lexical score is any non-negative number
VectorScores  == {Flt(1, 2), FromInt(2)}
KeywordScores == {FromInt(0), FromInt(1), FromInt(3)}

\* what es_client.search may answer: at most `size` distinct searchable records
\* of the index, each with a raw score, in descending order of score
HitLists(index_name, size, Scores) ==
    LET docs == esSearchable[index_name]
        n    == Min(size, Cardinality(DOMAIN docs))
        raw  == UNION {[1..m -> (DOMAIN docs) \X Scores] : m \in 0..n}
        ok   == {h \in raw :
                   /\ \A a, b \in 1..Len(h) : a # b => h[a][1] # h[b][1]
                   /\ \A a \in 1..(Len(h) - 1) : FLe(h[a + 1][2], h[a][2])}
    IN  {[k \in 1..Len(h) |-> [id |-> h[k][1], score |-> h[k][2], source |-> docs[h[k][1]]]]
           : h \in ok}

\* line 17: a call of retrieve_documents(query, index_name, top_k)
RQ_Call ==
    /\ rq.pc = "idle"
    /\ \E query \in Queries, index_name \in QueryIndexes, top_k \in 0..MaxTopK :
         rq' = [IdleQuery EXCEPT !.pc = "embed", !.query = query,
                                 !.index_name = index_name, !.top_k = top_k]
    /\ UNCHANGED <<fs, storeVars, proc, queue, hist, faults, tmpCount, rqOther, hashKey>>

\* mutant: the index is ensured (created when missing) before it is searched
RQ_EmbedQueryEnsuresIndex ==
    /\ rq.pc = "embed"
    /\ \/ /\ CanFault
          /\ faults' = faults + 1
          /\ rq' = [rq EXCEPT !.pc = "failed", !.embeds = @ + 1, !.efailed = TRUE,
                              !.ret = [NoPayload EXCEPT !.status = "error"]]
          /\ UNCHANGED storeVars
       \/ /\ UNCHANGED faults
          /\ rq' = [rq EXCEPT !.pc = "vector", !.embeds = @ + 1]
          /\ IF rq.index_name \in DOMAIN esDocs
             THEN UNCHANGED storeVars
             ELSE /\ esDocs' = Put(esDocs, rq.index_name, <<>>)
                  /\ esSearchable' = Put(esSearchable, rq.index_name, <<>>)
                  /\ esMapping' = Put(esMapping, rq.index_name, <<>>)
                  /\ UNCHANGED <<minioBuckets, minioObjects>>
    /\ UNCHANGED <<fs, proc, queue, hist, tmpCount, rqOther, hashKey>>

\* mutant: a failed query embedding is tried again
RQ_EmbedQueryRetries ==
    /\ rq.pc = "embed"
    /\ \/ /\ CanFault
          /\ faults' = faults + 1
          /\ rq' = [rq EXCEPT !.embeds = @ + 1, !.efailed = TRUE]
       \/ /\ UNCHANGED faults
          /\ rq' = [rq EXCEPT !.pc = "vector", !.embeds = @ + 1]
    /\ UNCHANGED <<fs, storeVars, proc, queue, hist, tmpCount, rqOther, hashKey>>

\* line 21: embedding_model.embed_query; when it raises, the outer except
\* clause (lines 169-171) logs and re-raises
RQ_EmbedQuery ==
    /\ rq.pc = "embed"
    /\ \/ /\ CanFault
          /\ faults' = faults + 1
          /\ rq' = [rq EXCEPT !.pc = "failed", !.embeds = @ + 1, !.efailed = TRUE,
                              !.ret = [NoPayload EXCEPT !.status = "error"]]
       \/ /\ UNCHANGED faults
          /\ rq' = [rq EXCEPT !.pc = "vector", !.embeds = @ + 1]
    /\ UNCHANGED <<fs, storeVars, proc, queue, hist, tmpCount, rqOther, hashKey>>

\* mutant: a failure of the vector search is not caught and ends the call
RQ_VectorSearchFatal ==
    /\ rq.pc = "vector"
    /\ \/ /\ rq.index_name \notin DOMAIN esSearchable \/ CanFault
          /\ faults' = IF rq.index_name \in DOMAIN esSearchable THEN faults + 1 ELSE faults
          /\ rq' = [rq EXCEPT !.pc = "failed", !.vfailed = TRUE, !.searches = @ + 1,
                              !.ret = [NoPayload EXCEPT !.status = "error"]]
       \/ /\ rq.index_name \in DOMAIN esSearchable
          /\ \E hits \in HitLists(rq.index_name, rq.top_k * 2, VectorScores) :
               rq' = [rq EXCEPT !.pc = "keyword", !.vector_docs = VectorDocs(hits),
                                !.searches = @ + 1]
          /\ UNCHANGED faults
    /\ UNCHANGED <<fs, storeVars, proc, queue, hist, tmpCount, rqOther, hashKey>>

\* lines 37-57: the vector search; any exception leaves vector_docs empty
RQ_VectorSearch ==
    /\ rq.pc = "vector"
    /\ \/ /\ rq.index_name \notin DOMAIN esSearchable \/ CanFault
          /\ faults' = IF rq.index_name \in DOMAIN esSearchable THEN faults + 1 ELSE faults
          /\ rq' = [rq EXCEPT !.pc = "keyword", !.vector_docs = <<>>, !.vfailed = TRUE,
                              !.searches = @ + 1]
       \/ /\ rq.index_name \in DOMAIN esSearchable
          /\ \E hits \in HitLists(rq.index_name, rq.top_k * 2, VectorScores) :
               rq' = [rq EXCEPT !.pc = "keyword", !.vector_docs = VectorDocs(hits),
                                !.searches = @ + 1]
          /\ UNCHANGED faults
    /\ UNCHANGED <<fs, storeVars, proc, queue, hist, tmpCount, rqOther, hashKey>>

\* lines 69-89: the keyword search; any exception, the division by a maximum
\* score of zero included, leaves keyword_docs empty
RQ_KeywordSearch ==
    /\ rq.pc = "keyword"
    /\ \/ /\ rq.index_name \notin DOMAIN esSearchable \/ CanFault
          /\ faults' = IF rq.index_name \in DOMAIN esSearchable THEN faults + 1 ELSE faults
          /\ rq' = [rq EXCEPT !.pc = "rank", !.keyword_docs = <<>>, !.kfailed = TRUE,
                              !.searches = @ + 1]
       \/ /\ rq.index_name \in DOMAIN esSearchable
          /\ \E hits \in HitLists(rq.index_name, rq.top_k * 2, KeywordScores) :
               IF KeywordMaxScore(hits) = FromInt(0)
               THEN rq' = [rq EXCEPT !.pc = "rank", !.keyword_docs = <<>>, !.kfailed = TRUE,
                                     !.searches = @ + 1, !.khits = Len(hits)]
               ELSE rq' = [rq EXCEPT !.pc = "rank", !.keyword_docs = KeywordDocs(hits),
                                     !.searches = @ + 1, !.khits = Len(hits)]
          /\ UNCHANGED faults
    /\ UNCHANGED <<fs, storeVars, proc, queue, hist, tmpCount, rqOther, hashKey>>

\* lines 162-167: the value retrieve_documents returns; status marks a call
\* that returned
SuccessPayload(query, index_name, final_results) ==
    [status |-> "success", query |-> query, index |-> index_name,
     result_count |-> Len(final_results), results |-> final_results]

\* lines 91-167: merge, deduplicate, rerank, sort, truncate, clean, return
RQ_Return ==
    /\ rq.pc = "rank"
    /\ rq' = [rq EXCEPT !.pc = "done",
                  !.ret = SuccessPayload(rq.query, rq.index_name,
                              FinalResults(rq.query, rq.top_k, rq.vector_docs,
                                           rq.keyword_docs))]
    /\ UNCHANGED <<fs, storeVars, proc, queue, hist, faults, tmpCount, rqOther, hashKey>>

-----------------------------------------------------------------------------
(* Specifications *)

EmptyFn == <<>>

InitStores ==
    /\ fs = EmptyFn
    /\ esDocs = EmptyFn
    /\ esSearchable = EmptyFn
    /\ esMapping = EmptyFn
    /\ minioBuckets = {}
    /\ minioObjects = EmptyFn
    /\ proc = [w \in Workers |-> IdleProc]
    /\ hist = <<>>
    /\ faults = 0
    /\ tmpCount = 0
    \* a key under which no two texts of the requests have one hash value
    /\ hashKey = {}
    /\ rq = IdleQuery
    /\ rqOther = IdleQuery

\* one step of the ingestion task of worker w, or of the request that starts it
Ingest(w) ==
    \/ upload_document(w)
    \/ upload_write(w)
    \/ fetch_from_minio(w)
    \/ PMD_GetObject(w)
    \/ process_minio_document(w)
    \/ PD_Load(w)
    \/ PD_IndexExists(w)
    \/ PD_CreateIndex(w)
    \/ PD_Embed(w)
    \/ PD_IndexChunk(w)
    \/ PD_Refresh(w)
    \/ PD_BucketExists(w)
    \/ PD_MakeBucket(w)
    \/ PD_ReadFile(w)
    \/ PD_PutObject(w)
    \/ PD_Return(w)
    \/ PD_Except(w)

\* one step of a bucket scan up to its first object, or of the request that
\* starts it; the objects are then processed by the steps of Ingest
Scan(w) ==
    \/ scan_minio_bucket(w)
    \/ SMB_BucketExists(w)
    \/ SMB_ListObjects(w)

\* the stores when the index of source "upload" exists before the first
\* ingestion, empty and created without the vector mapping
InitIndexed ==
    /\ fs = EmptyFn
    /\ esDocs = Put(<<>>, IndexName(SRC_UPLOAD), <<>>)
    /\ esSearchable = esDocs
    /\ esMapping = Put(<<>>, IndexName(SRC_UPLOAD), DynamicMapping)
    /\ minioBuckets = {}
    /\ minioObjects = EmptyFn
    /\ proc = [w \in Workers |-> IdleProc]
    /\ hist = <<>>
    /\ faults = 0
    /\ tmpCount = 0
    /\ hashKey = {}
    /\ rq = IdleQuery
    /\ rqOther = IdleQuery

\* the stores when other systems of the data lake have filled the raw zone:
\* two documents and a program under documents/, one document outside it
InitRawZone ==
    /\ fs = EmptyFn
    /\ esDocs = EmptyFn
    /\ esSearchable = EmptyFn
    /\ esMapping = EmptyFn
    /\ minioBuckets = {RAW_ZONE}
    /\ minioObjects =
           Put(Put(Put(Put(<<>>, <<RAW_ZONE, OBJECT_PREFIX \o F_A_TXT>>, <<T_FOX, T_DOG>>),
                       <<RAW_ZONE, OBJECT_PREFIX \o F_B_MD>>, <<T_FOX>>),
                   <<RAW_ZONE, OBJECT_PREFIX \o F_C_EXE>>, <<T_FOX>>),
               <<RAW_ZONE, F_A_TXT>>, <<T_DEN>>)
    /\ proc = [w \in Workers |-> IdleProc]
    /\ hist = <<>>
    /\ faults = 0
    /\ tmpCount = 0
    /\ hashKey = {}
    /\ rq = IdleQuery
    /\ rqOther = IdleQuery

\* Sequential ingestion: every request is sent after the previous ingestion has
\* finished, so one worker runs at a time.
Init ==
    \/ /\ InitStores \/ InitIndexed
       /\ queue \in SeqsUpTo(SmallRequests \cup {S_RAW}, MaxQueue)
                       \cup {<<U_BIG>>, <<U_NONE>>} \cup PairedRequests
    \/ /\ InitRawZone
       /\ queue = <<S_RAW>>

Next == Ingest(1) \/ Scan(1)

Spec == Init /\ [][Next]_vars

\* Concurrent ingestion: two requests, each taken by a worker thread of its own.
InitConc ==
    /\ InitStores
    /\ queue \in {<<U_A1, U_A3>>, <<U_A1, U_A2>>, <<U_A1, U_A4>>, <<U_A1, U_B>>,
                   <<U_A1, M_A>>, <<U_A1, S_RAW>>}

NextConc == \E w \in Workers : Ingest(w) \/ Scan(w)

SpecConc == InitConc /\ [][NextConc]_vars

\* Retrieval runs against the store as two ingestions into source "upload"
\* leave it: a.txt, then b.MD. Either a.txt has two chunks and b.MD one chunk of
\* a text of its own, or both have the same single chunk.
StoredDoc(text, filename, description) ==
    [content |-> text,
     metadata |-> [source |-> SRC_UPLOAD, filename |-> filename, description |-> description],
     vector |-> Embed(text)]

IngestedDocs(dataA, dataB) ==
    LET a   == split_documents(dataA)
        b   == split_documents(dataB)
        idA == [k \in 1..Len(a) |-> RecordId(F_A_TXT, k - 1)]
        idB == [k \in 1..Len(b) |-> RecordId(F_B_MD, k - 1)]
    IN  [id \in {idA[k] : k \in 1..Len(a)} \cup {idB[k] : k \in 1..Len(b)} |->
            IF \E k \in 1..Len(a) : idA[k] = id
            THEN StoredDoc(a[CHOOSE k \in 1..Len(a) : idA[k] = id], F_A_TXT, D_EMPTY)
            ELSE StoredDoc(b[CHOOSE k \in 1..Len(b) : idB[k] = id], F_B_MD, D_V2)]

InitRetrieve ==
    /\ fs = EmptyFn
    /\ \E data \in {<<<<T_FOX, T_DOG>>, <<T_DEN>>>>, <<<<T_FOX>>, <<T_FOX>>>>} :
          /\ esDocs = Put(<<>>, IndexName(SRC_UPLOAD), IngestedDocs(data[1], data[2]))
          /\ minioObjects = Put(Put(<<>>, <<RAW_ZONE, OBJECT_PREFIX \o F_A_TXT>>, data[1]),
                                <<RAW_ZONE, OBJECT_PREFIX \o F_B_MD>>, data[2])
    /\ esSearchable = esDocs
    /\ esMapping = Put(<<>>, IndexName(SRC_UPLOAD), VectorMapping)
    /\ minioBuckets = {RAW_ZONE}
    /\ proc = [w \in Workers |-> IdleProc]
    /\ queue = <<>>
    /\ hist = <<>>
    /\ faults = 0
    /\ tmpCount = 0
    /\ hashKey \in HashKeys(StoredContents)
    /\ rq = IdleQuery
    /\ rqOther = IdleQuery

NextRetrieve ==
    \/ RQ_Call
    \/ RQ_EmbedQuery
    \/ RQ_VectorSearch
    \/ RQ_KeywordSearch
    \/ RQ_Return

SpecRetrieve == InitRetrieve /\ [][NextRetrieve]_vars

\* Concurrent retrieval: two retrieve_documents calls run in two workers of the
\* service against the same stores; rq is the call whose step comes next,
\* rqOther the call that waits, and the scheduler exchanges them at any point.
\* The second call, retrieve_documents("Red", "documents_upload", 1), has been
\* made already.
RQ_Yield ==
    /\ rq' = rqOther
    /\ rqOther' = rq
    /\ rq # rqOther
    /\ UNCHANGED <<fs, storeVars, proc, queue, hist, faults, tmpCount, hashKey>>

InitRetrieveConc ==
    /\ fs = EmptyFn
    /\ esDocs = Put(<<>>, IndexName(SRC_UPLOAD), IngestedDocs(<<BLANK>>, <<T_DEN>>))
    /\ esSearchable = esDocs
    /\ esMapping = Put(<<>>, IndexName(SRC_UPLOAD), VectorMapping)
    /\ minioBuckets = {RAW_ZONE}
    /\ minioObjects = Put(<<>>, <<RAW_ZONE, OBJECT_PREFIX \o F_B_MD>>, <<T_DEN>>)
    /\ proc = [w \in Workers |-> IdleProc]
    /\ queue = <<>>
    /\ hist = <<>>
    /\ faults = 0
    /\ tmpCount = 0
    /\ hashKey \in HashKeys(StoredContents)
    /\ rq = IdleQuery
    /\ rqOther = [IdleQuery EXCEPT !.pc = "embed", !.query = Q_RED,
                                   !.index_name = IndexName(SRC_UPLOAD), !.top_k = 1]

NextRetrieveConc ==
    \/ NextRetrieve
    \/ RQ_Yield

SpecRetrieveConc == InitRetrieveConc /\ [][NextRetrieveConc]_vars

\* The rerank formula on its whole input range: the call
\* retrieve_documents(query, "documents_upload", 1) has received the answers of
\* both searches and is about to merge them, over a store whose chunks differ
\* in length and in the query words they hold, or over one whose two chunks are
\* made of the same words. The raw scores are numbers of the
\* JSON answers: from 0 (cosine similarity -1) to 2 for the vector search, any
\* non-negative number for the keyword search, very small ones (2^-64, 2^-65)
\* included.
VectorScoresFull  == {FromInt(0), <<NFromInt(1), -64>>, FromInt(2)}
KeywordScoresFull == {FromInt(0), <<NFromInt(1), -65>>, FromInt(1)}

InitRerank ==
    /\ fs = EmptyFn
    /\ \E data \in {<<<<T_FOX, T_RED>>, <<T_DEN>>>>, <<<<T_DEN>>, <<T_NED>>>>} :
          /\ esDocs = Put(<<>>, IndexName(SRC_UPLOAD), IngestedDocs(data[1], data[2]))
          /\ minioObjects = Put(Put(<<>>, <<RAW_ZONE, OBJECT_PREFIX \o F_A_TXT>>, data[1]),
                                <<RAW_ZONE, OBJECT_PREFIX \o F_B_MD>>, data[2])
    /\ esSearchable = esDocs
    /\ esMapping = Put(<<>>, IndexName(SRC_UPLOAD), VectorMapping)
    /\ minioBuckets = {RAW_ZONE}
    /\ proc = [w \in Workers |-> IdleProc]
    /\ queue = <<>>
    /\ hist = <<>>
    /\ faults = 0
    /\ tmpCount = 0
    /\ hashKey \in HashKeys(StoredContents)
    /\ \E query \in Queries :
       \E vhits \in HitLists(IndexName(SRC_UPLOAD), 2, VectorScoresFull) :
       \E khits \in HitLists(IndexName(SRC_UPLOAD), 2, KeywordScoresFull) :
          LET failed == KeywordMaxScore(khits) = FromInt(0)
          IN  rq = [IdleQuery EXCEPT !.pc = "rank", !.query = query,
                                     !.index_name = IndexName(SRC_UPLOAD), !.top_k = 1,
                                     !.vector_docs = VectorDocs(vhits),
                                     !.keyword_docs = IF failed THEN <<>> ELSE KeywordDocs(khits),
                                     !.kfailed = failed, !.khits = Len(khits),
                                     !.searches = 2, !.embeds = 1]
    /\ rqOther = IdleQuery

NextRerank == RQ_Return

SpecRerank == InitRerank /\ [][NextRerank]_vars

\* The service used by one client: a.txt is uploaded, then fetched back from
\* the raw zone, and when both ingestions have finished one query is made.
InitService ==
    /\ InitStores
    /\ queue = <<U_A2, M_A>>

NextService ==
    \/ Ingest(1)
    \/ queue = <<>> /\ Free(1) /\ NextRetrieve

SpecService == InitService /\ [][NextService]_vars

-----------------------------------------------------------------------------
(* Claims about retrieve_documents, checked under SpecRetrieve *)

Finished == rq.pc \in {"done", "failed"}
Results == rq.ret.results
\* the deduplicated merge list with its rerank scores
Candidates == Rerank(rq.query, Unique(AllResults(rq.vector_docs, rq.keyword_docs), {}))

\* C1: when both the vector search and the keyword search raise within one
\* retrieve call, the call fails and returns no success payload.
C1_BothPathsFailRaises ==
    (Finished /\ rq.vfailed /\ rq.kfailed) => (rq.pc = "failed" /\ rq.ret.status # "success")

\* C2: a retrieve that returns has at most top_k results, and result_count is
\* the length of the results list.
C2_AtMostTopK ==
    rq.pc = "done" =>
        /\ Len(Results) <= rq.top_k
        /\ rq.ret.result_count = Len(Results)

C2_Witness ==
    /\ rq.pc = "done"
    /\ rq.top_k = 1
    /\ Len(Results) = 1
    /\ Len(Candidates) > 1
    /\ rq.kfailed /\ ~rq.vfailed

\* C3: the results are the first top_k candidates of the deduplicated merge list
\* in stable descending order of rerank score: scores never increase along the
\* list, candidates of equal score keep their merge order, and no omitted
\* candidate would sort before a returned one.
C3_StableSortedPrefix ==
    rq.pc = "done" =>
        LET cands == Candidates
            res   == Results
            found == \A a \in 1..Len(res) :
                        \E m \in 1..Len(cands) : cands[m].content = res[a].content
            pos   == [a \in 1..Len(res) |->
                        CHOOSE m \in 1..Len(cands) : cands[m].content = res[a].content]
        IN  /\ Len(res) = Min(rq.top_k, Len(cands))
            /\ found
            /\ \A a \in 1..Len(res) : res[a] = Cleaned(cands[pos[a]])
            /\ \A a, b \in 1..Len(res) :
                  a < b => /\ FLe(res[b].score, res[a].score)
                           /\ res[a].score = res[b].score => pos[a] < pos[b]
            /\ \A m \in 1..Len(cands) :
                  (\A a \in 1..Len(res) : pos[a] # m)
                  => \A a \in 1..Len(res) :
                        /\ FLe(cands[m].score, res[a].score)
                        /\ cands[m].score = res[a].score => pos[a] < m

C3_Witness ==
    /\ rq.pc = "done"
    /\ Len(Results) = 2
    /\ Len(Candidates) = 3
    /\ Results[1].score = Results[2].score
    /\ Results[1].content # Results[2].content
    /\ Results[1].search_type = "semantic" /\ Results[2].search_type = "semantic"

\* C4: no two results have the same content, and a content returned by both
\* paths survives as the vector-path entry: tagged semantic, its score the
\* rerank of the vector path's normalized score.
C4_DedupKeepsVectorEntry ==
    rq.pc = "done" =>
        /\ \A a, b \in 1..Len(Results) : a # b => Results[a].content # Results[b].content
        /\ \A a \in 1..Len(Results) :
              (\E k \in 1..Len(rq.vector_docs) : rq.vector_docs[k].content = Results[a].content)
              => LET first == CHOOSE k \in 1..Len(rq.vector_docs) :
                                 /\ rq.vector_docs[k].content = Results[a].content
                                 /\ \A m \in 1..(k - 1) :
                                       rq.vector_docs[m].content # Results[a].content
                 IN  /\ Results[a].search_type = "semantic"
                     /\ Results[a].score = RerankedScore(rq.query, rq.vector_docs[first])

C4_Witness ==
    /\ rq.pc = "done"
    /\ \E a \in 1..Len(Results) :
          /\ \E k \in 1..Len(rq.vector_docs) : rq.vector_docs[k].content = Results[a].content
          /\ \E k \in 1..Len(rq.keyword_docs) :
                /\ rq.keyword_docs[k].content = Results[a].content
                /\ FLt(rq.vector_docs[1].score, rq.keyword_docs[k].score)

\* C5: when exactly one search path raises, retrieve still returns, and its
\* results come from the other path only: all keyword when the vector path
\* raised, all semantic when the keyword path raised.
C5_OnePathDegrades ==
    (Finished /\ rq.vfailed # rq.kfailed) =>
        /\ rq.pc = "done" /\ rq.ret.status = "success"
        /\ rq.vfailed => \A a \in 1..Len(Results) :
              /\ Results[a].search_type = "keyword"
              /\ \E k \in 1..Len(rq.keyword_docs) :
                    rq.keyword_docs[k].content = Results[a].content
        /\ rq.kfailed => \A a \in 1..Len(Results) :
              /\ Results[a].search_type = "semantic"
              /\ \E k \in 1..Len(rq.vector_docs) :
                    rq.vector_docs[k].content = Results[a].content

C5_Witness ==
    /\ rq.pc = "done"
    /\ rq.vfailed /\ ~rq.kfailed
    /\ Len(Results) = 2
    /\ \A a \in 1..Len(Results) : Results[a].search_type = "keyword"

-----------------------------------------------------------------------------
(* Claims about process_document *)

Final(w) == proc[w].pc \in {"done", "failed"}
InTemp(path) == dirname(path) = TEMP_DIR
StoredIds(index_name) ==
    IF index_name \in DOMAIN esDocs THEN DOMAIN esDocs[index_name] ELSE {}

\* C6: once a step of an ingestion has failed, no later step of it runs, the
\* caller gets the error, and every record the ingestion had written stays in
\* the index (nothing is deleted or rolled back, now or later).
C6_AbortKeepsWrites ==
    /\ \A w \in Workers :
          /\ proc[w].failedAt # "none" => proc[w].pc \in {"except", "failed"}
          /\ proc[w].pc = "failed" => proc[w].ret.status = "error"
          /\ proc[w].ret.status = "error" => proc[w].failedAt # "none"
          /\ proc[w].written \subseteq StoredIds(proc[w].index_name)
    /\ \A k \in 1..Len(hist) :
          /\ hist[k].written \subseteq StoredIds(hist[k].index_name)
          /\ hist[k].status = "error" <=> hist[k].failedAt # "none"

C6_Witness ==
    /\ proc[1].pc = "failed"
    /\ proc[1].failedAt = "index"
    /\ proc[1].i = batch_size
    /\ Cardinality(proc[1].written) = batch_size
    /\ proc[1].written \subseteq StoredIds(proc[1].index_name)

\* C7: when an ingestion of a file lying directly in /data/temp finishes, by a
\* return or by an error, the file does not exist.
C7_TempFileGone ==
    [][\A w \in Workers :
          (~Final(w) /\ proc'[w].pc \in {"done", "failed"} /\ InTemp(proc'[w].file_path))
          => proc'[w].file_path \notin DOMAIN fs']_vars

C7_Witness ==
    /\ proc[1].pc = "failed"
    /\ proc[1].failedAt = "put_object"
    /\ InTemp(proc[1].file_path)
    /\ proc[1].file_path \notin DOMAIN fs

\* C8: two successful sequential ingestions of the same file name, index and
\* chunk sequence write the same set of record ids, and the index holds as
\* many records after the second as after the first.
C8_ReingestSameIds ==
    \A a, b \in 1..Len(hist) :
        ( /\ a < b
          /\ hist[a].status = "success" /\ hist[b].status = "success"
          /\ hist[a].filename = hist[b].filename
          /\ hist[a].index_name = hist[b].index_name
          /\ hist[a].data = hist[b].data )
        => /\ hist[b].written = hist[a].written
           /\ b = a + 1 => hist[b].count = hist[a].count

C8_Witness ==
    /\ Len(hist) = 2
    /\ hist[1].status = "success" /\ hist[2].status = "success"
    /\ hist[1].filename = hist[2].filename
    /\ hist[1].index_name = hist[2].index_name
    /\ hist[1].data = hist[2].data
    /\ Cardinality(hist[2].written) = 2
    /\ hist[2].count = 2

\* C9: when an ingestion returns successfully the index has been refreshed
\* after its last record write: every record it wrote is searchable, in the
\* version it wrote.
C9_RefreshBeforeReturn ==
    \A w \in Workers :
        proc[w].pc = "done" =>
            /\ proc[w].index_name \in DOMAIN esSearchable
            /\ \A id \in proc[w].written :
                  /\ id \in DOMAIN esSearchable[proc[w].index_name]
                  /\ esSearchable[proc[w].index_name][id] = esDocs[proc[w].index_name][id]

C9_Witness ==
    /\ proc[1].pc = "done"
    /\ Cardinality(proc[1].written) = batch_size + 1
    /\ proc[1].written \subseteq DOMAIN esSearchable[proc[1].index_name]

\* C10: concurrent ingestions of the same file name into the same index are
\* not serialized: neither ever waits for the other before embedding or
\* writing, and the record stored under an id both have written is the record
\* of one of the two.
SameTarget(v, w) ==
    /\ proc[v].index_name = proc[w].index_name
    /\ proc[v].filename = proc[w].filename
    /\ proc[v].filename # <<>>

C10_WritesNotSerialized ==
    \A w \in Workers :
        /\ proc[w].pc = "embed" => ENABLED PD_Embed(w)
        /\ proc[w].pc = "index" => ENABLED PD_IndexChunk(w)
        /\ \A v \in Workers \ {w} :
              SameTarget(v, w) =>
                 \A id \in proc[v].written \cap proc[w].written :
                    esDocs[proc[w].index_name][id].metadata.description
                        \in {proc[v].description, proc[w].description}

\* both ingestions have finished and the index holds chunk 0 as the first
\* ingestion wrote it and chunk 1 as the second wrote it, or the other way round
C10_Witness ==
    /\ Final(1) /\ Final(2)
    /\ SameTarget(1, 2)
    /\ proc[1].description # proc[2].description
    /\ LET docs == esDocs[proc[1].index_name]
           id0  == RecordId(proc[1].filename, 0)
           id1  == RecordId(proc[1].filename, 1)
       IN  /\ {id0, id1} \subseteq proc[1].written \cap proc[2].written
           /\ docs[id0].metadata.description = proc[2].description
           /\ docs[id1].metadata.description = proc[1].description

\* C11: an ingestion that returns successfully with a source that does not
\* start with "minio/" has put the file's bytes under documents/<filename> in
\* the raw-ingestion zone; an ingestion whose source starts with "minio/"
\* issues no bucket creation and no object write at any point.
RawKey(filename) == <<RAW_ZONE, OBJECT_PREFIX \o filename>>

C11_RawBytesStoredUnlessMinio ==
    \A w \in Workers :
        IF StartsWith(proc[w].source, MINIO_PREFIX)
        THEN proc[w].puts = 0
        ELSE proc[w].pc = "done"
             => /\ proc[w].puts >= 1
                /\ RAW_ZONE \in minioBuckets
                /\ RawKey(proc[w].filename) \in DOMAIN minioObjects
                /\ minioObjects[RawKey(proc[w].filename)] = proc[w].data

\* an upload has been ingested and stored, then the stored object has been
\* ingested from the raw zone, which left the object store as it was
C11_Witness ==
    /\ Len(hist) = 2
    /\ hist[1].status = "success" /\ ~StartsWith(hist[1].source, MINIO_PREFIX)
    /\ hist[2].status = "success" /\ StartsWith(hist[2].source, MINIO_PREFIX)
    /\ proc[1].pc = "done" /\ proc[1].puts = 0
    /\ proc[1].filename = hist[1].filename
    /\ DOMAIN minioObjects = {RawKey(hist[1].filename)}
    /\ minioObjects[RawKey(hist[1].filename)] = hist[1].data

\* C12: every record an ingestion writes goes to the one index named
\* "documents_" followed by the source with each "/" and each " " replaced by
\* "_" and every other character lower-cased; a successful ingestion returns
\* that name; so ingestions whose sources differ but have one slug share an index.
SlugOf(source) ==
    Lower([k \in 1..Len(source) |->
              IF source[k] \in {ord("/"), ord(" ")} THEN ord("_") ELSE source[k]])

C12_OneIndexPerSlug ==
    /\ [](\A w \in Workers :
            proc[w].index_name # <<>>
            => /\ proc[w].index_name = INDEX_PREFIX \o SlugOf(proc[w].source)
               /\ proc[w].written \subseteq StoredIds(proc[w].index_name)
               /\ proc[w].pc = "done" => proc[w].ret.index_name = proc[w].index_name)
    /\ [][\A w \in Workers :
            proc'[w] # proc[w]
            => \A n \in DOMAIN esDocs' :
                  n # proc'[w].index_name => (n \in DOMAIN esDocs /\ esDocs'[n] = esDocs[n])]_vars

\* two successful ingestions with sources "Up x" and "up/x" have both written
\* into the index documents_up_x
C12_Witness ==
    /\ Len(hist) = 2
    /\ hist[1].status = "success" /\ hist[2].status = "success"
    /\ hist[1].source # hist[2].source
    /\ hist[1].index_name = hist[2].index_name
    /\ hist[1].written # {} /\ hist[2].written # {}
    /\ DOMAIN esDocs = {hist[1].index_name}
    /\ StoredIds(hist[1].index_name) = hist[1].written \cup hist[2].written
    /\ proc[1].ret.index_name = hist[1].index_name

\* C13: an ingestion of a file whose extension is none of .txt, .md, .html,
\* .csv, .pdf fails with the unsupported-file-type error of the loader
\* selection, which is the only call it makes: it creates no index, embeds
\* nothing, writes no record, refreshes nothing and stores no object.
ClaimedTypes ==
    {Chars(<<".","t","x","t">>), Chars(<<".","m","d">>), Chars(<<".","h","t","m","l">>),
     Chars(<<".","c","s","v">>), Chars(<<".","p","d","f">>)}

C13_UnsupportedTypeFailsFirst ==
    /\ [](\A w \in Workers :
            (proc[w].file_path # <<>> /\ Lower(splitext(proc[w].file_path)) \notin ClaimedTypes)
            => /\ proc[w].pc \in {"upload_write", "load", "except", "failed"}
               /\ proc[w].pc \in {"except", "failed"}
                     => /\ proc[w].failedAt = "loader"
                        /\ Len(SelectSeq(proc[w].calls, LAMBDA c : c.op # "get_object")) = 1
               /\ proc[w].written = {} /\ proc[w].puts = 0
               /\ proc[w].index_name = <<>>)
    /\ [][\A w \in Workers :
            ( /\ proc'[w] # proc[w]
              /\ proc'[w].file_path # <<>>
              /\ Lower(splitext(proc'[w].file_path)) \notin ClaimedTypes )
            => UNCHANGED storeVars]_vars

\* c.exe has been rejected after a.txt had been ingested; the stores hold what
\* the ingestion of a.txt left
C13_Witness ==
    /\ Len(hist) = 2
    /\ hist[1].status = "success"
    /\ hist[2].status = "error" /\ hist[2].failedAt = "loader"
    /\ hist[2].filename = <<>>
    /\ proc[1].pc = "failed" /\ proc[1].file_path = join(TEMP_DIR, F_C_EXE)
    /\ proc[1].ncalls = 1
    /\ DOMAIN esDocs = {hist[1].index_name}
    /\ StoredIds(hist[1].index_name) = hist[1].written

\* C14: retrieve is read-only: no step of a retrieve call, whether the call
\* succeeds, degrades to one path or fails, and however the steps of two
\* concurrent calls interleave, changes the indexes, their mappings, their
\* stored or searchable records, or the object store.
C14_RetrieveReadOnly ==
    [][UNCHANGED storeVars]_vars

\* both calls have finished after running interleaved: one returned results,
\* the other degraded to the vector path after its keyword search had raised
C14_Witness ==
    /\ rq.pc = "done" /\ rqOther.pc = "done"
    /\ rq.query = Q_DOG /\ Len(rq.ret.results) = 1 /\ ~rq.vfailed /\ ~rq.kfailed
    /\ rqOther.kfailed /\ ~rqOther.vfailed /\ Len(rqOther.ret.results) = 1
    /\ rq.searches = 2 /\ rqOther.searches = 2
    /\ esSearchable = esDocs /\ DOMAIN esDocs = {IndexName(SRC_UPLOAD)}

\* C16: no entry of the results a retrieve returns has the field raw_score or
\* the field rerank_factors: the fields of every entry are exactly content,
\* metadata, score and search_type.
C16_NoDiagnosticFields ==
    rq.pc = "done" =>
        \A a \in 1..Len(Results) :
            DOMAIN Results[a] = {"content", "metadata", "score", "search_type"}

\* a semantic and a keyword entry are returned, and the candidates they were
\* made from carried both diagnostic fields
C16_Witness ==
    /\ rq.pc = "done"
    /\ Len(Results) = 2
    /\ Results[1].search_type # Results[2].search_type
    /\ \A m \in 1..Len(Candidates) :
          {"raw_score", "rerank_factors"} \subseteq DOMAIN Candidates[m]

\* C17: under concurrent ingestions into the same index that does not exist
\* yet, indices.create is never issued for an index that exists at that moment,
\* and no ingestion fails in the index creation unless the store itself fails.
C17_CreateOnlyWhenAbsent ==
    \A w \in Workers :
        /\ proc[w].pc = "create" => proc[w].index_name \notin DOMAIN esDocs
        /\ proc[w].failedAt = "create" => faults > 0

\* C18: two successful sequential ingestions of files with different names into
\* the same index write no record under a common id.
C18_IdsUniqueAcrossFiles ==
    \A a, b \in 1..Len(hist) :
        ( /\ a < b
          /\ hist[a].status = "success" /\ hist[b].status = "success"
          /\ hist[a].index_name = hist[b].index_name
          /\ hist[a].filename # hist[b].filename )
        => hist[a].written \cap hist[b].written = {}

\* C19: when a file has been ingested again, sequentially, under the same name
\* and index with fewer chunks than before, every record the index holds (and
\* search sees) under an id of the earlier ingestion is a record the latest
\* ingestion wrote: no chunk of the earlier version is left.
C19_NoStaleChunks ==
    \A a, b \in 1..Len(hist) :
        ( /\ a < b /\ b = Len(hist)
          /\ hist[a].status = "success" /\ hist[b].status = "success"
          /\ hist[a].filename = hist[b].filename
          /\ hist[a].index_name = hist[b].index_name
          /\ Cardinality(hist[b].written) < Cardinality(hist[a].written)
          /\ proc[hist[b].worker].pc = "done" )
        => \A id \in hist[a].written :
              /\ id \in StoredIds(hist[b].index_name) => id \in hist[b].written
              /\ id \in DOMAIN esSearchable[hist[b].index_name] => id \in hist[b].written

\* C20: when the keyword search answers a non-empty batch of hits (raw scores
\* are not negative, the maximum may be 0), the keyword path does not fail and
\* yields one candidate per hit with score = raw / max(max_raw, epsilon) * 10,
\* a number from 0 to 10; when it answers an empty batch the path yields no
\* candidates and does not fail.  khits is the number of hits answered (-1
\* when the store raised).
EPSILON == Flt(1, 1000000)


C20_KeywordNormalization ==
    (rq.pc \in {"rank", "done"} /\ rq.khits >= 0) =>
        /\ ~rq.kfailed
        /\ Len(rq.keyword_docs) = rq.khits
        /\ \A k \in 1..Len(rq.keyword_docs) :
              LET max_raw == CHOOSE m \in {rq.keyword_docs[n].raw_score
                                              : n \in 1..Len(rq.keyword_docs)} :
                                \A n \in 1..Len(rq.keyword_docs) :
                                    FLe(rq.keyword_docs[n].raw_score, m)
                  d == rq.keyword_docs[k]
              IN  /\ d.score = FMul(FDiv(d.raw_score, FMax(max_raw, EPSILON)), TEN)
                  /\ FLe(FromInt(0), d.score) /\ FLe(d.score, TEN)
-----------------------------------------------------------------------------
(* Claims about the batch loop of process_document, checked under Spec *)

\* the embedding and record-write calls of an ingestion, in the order made
LoopCalls(p) == SelectSeq(p.calls, LAMBDA c : c.op \in {"embed", "index"})
EmbedCalls(p) == SelectSeq(p.calls, LAMBDA c : c.op = "embed")
\* the number of batches of n chunks
Batches(n) == (n + batch_size - 1) \div batch_size
\* the texts of batch b (from 1) of the chunk list
BatchTexts(p, b) ==
    [k \in 1..(Min(b * batch_size, Len(p.chunks)) - (b - 1) * batch_size) |->
        p.chunks[(b - 1) * batch_size + k].page_content]
\* the k-th call of the loop over n chunks: each batch is one embedding call at
\* its first offset followed by one write per offset of the batch
ExpectedCall(k) ==
    LET b == (k - 1) \div (batch_size + 1)
        r == (k - 1) % (batch_size + 1)
    IN  IF r = 0 THEN <<"embed", b * batch_size>>
        ELSE <<"index", b * batch_size + r - 1>>

\* C21: within one ingestion of N chunks the batches are consecutive slices of at
\* most 50 chunks taken in order; the embedding function is called once per batch
\* (ceil(N/50) calls, none when N = 0) with exactly that batch's texts, one record
\* is written per chunk, and the embedding call of a batch is not made before
\* every record of the batch before it has been written.
C21_BatchesInOrder ==
    \A w \in Workers :
        LET p == proc[w]
            n == Len(p.chunks)
            L == LoopCalls(p)
            E == EmbedCalls(p)
        IN  /\ Len(L) <= n + Batches(n)
            /\ \A k \in 1..Len(L) : <<L[k].op, L[k].at>> = ExpectedCall(k)
            /\ \A b \in 1..Len(E) :
                   \/ b = Len(E) /\ p.failedAt = "embed"
                   \/ /\ E[b].texts = BatchTexts(p, b)
                      /\ Len(E[b].texts) \in 1..batch_size
            /\ p.pc \in {"refresh", "done"} =>
                   /\ Len(L) = n + Batches(n)
                   /\ Len(E) = Batches(n)
                   /\ Cardinality(p.written) = n

\* an ingestion of 51 chunks has finished: two embedding calls, the second one
\* with the single text of the second batch
C21_Witness ==
    /\ proc[1].pc = "done"
    /\ Len(proc[1].chunks) = batch_size + 1
    /\ Len(EmbedCalls(proc[1])) = 2
    /\ EmbedCalls(proc[1])[2].texts = <<T_FOX>>
    /\ Cardinality(proc[1].written) = batch_size + 1

\* the file name with every "." turned into "_", then "_" and the decimal position
SanitizedId(filename, pos) ==
    [k \in 1..Len(filename) |-> IF filename[k] = ord(".") THEN ord("_") ELSE filename[k]]
        \o Chars(<<"_">>) \o Str(pos)
\* the number of chunks an ingestion has written so far
Processed(p) == Min(p.i + p.j, Len(p.chunks))

\* C22: the record of the chunk at global position p (from 0, across batches) has
\* the id sanitize(filename) + "_" + p and holds that chunk; the ids of one
\* ingestion are pairwise distinct, so no chunk overwrites another chunk of the
\* same ingestion, and on success indexed_chunks = N is the number of records
\* written.
C22_GlobalPositionIds ==
    \A w \in Workers :
        LET p == proc[w]
            n == Len(p.chunks)
        IN  /\ p.written = {SanitizedId(p.filename, pos) : pos \in 0..(Processed(p) - 1)}
            /\ Cardinality(p.written) = Processed(p)
            /\ \A pos \in 0..(Processed(p) - 1) :
                   /\ SanitizedId(p.filename, pos) \in DOMAIN esDocs[p.index_name]
                   /\ esDocs[p.index_name][SanitizedId(p.filename, pos)].content
                          = p.chunks[pos + 1].page_content
            /\ p.pc = "done" =>
                   /\ p.ret.indexed_chunks = n
                   /\ Cardinality(p.written) = n

\* an ingestion of 51 chunks has succeeded: the chunk of the second batch is
\* stored under position 50, next to the 50 records of the first batch
C22_Witness ==
    /\ proc[1].pc = "done"
    /\ proc[1].ret.indexed_chunks = batch_size + 1
    /\ SanitizedId(F_A_TXT, batch_size) \in proc[1].written
    /\ SanitizedId(F_A_TXT, 0) \in proc[1].written
    /\ Cardinality(DOMAIN esDocs[proc[1].index_name]) = batch_size + 1

-----------------------------------------------------------------------------
(* Claims about index creation over sequential ingestions, checked under Spec *)

\* worker w makes the call `op` in the step
Calls(w, op) ==
    /\ Len(proc'[w].calls) = Len(proc[w].calls) + 1
    /\ proc'[w].calls[Len(proc'[w].calls)].op = op

\* C23: over any sequence of sequential ingestions index creation is
\* create-if-absent only: a create is issued only when the index does not exist,
\* and no later ingestion changes the mapping (or drops the records) of an index
\* that exists.
C23_CreateIfAbsentOnly ==
    [][/\ \A w \in Workers :
            Calls(w, "create") => proc[w].index_name \notin DOMAIN esDocs
       /\ \A n \in DOMAIN esMapping :
            /\ n \in DOMAIN esMapping' /\ esMapping'[n] = esMapping[n]
            /\ n \in DOMAIN esDocs' /\ DOMAIN esDocs[n] \subseteq DOMAIN esDocs'[n]]_vars

\* two ingestions into one index have succeeded, the first created it with the
\* vector mapping, the second found it and issued no create
C23_Witness ==
    /\ Len(hist) = 2
    /\ hist[1].status = "success" /\ hist[2].status = "success"
    /\ hist[1].index_name = hist[2].index_name
    /\ hist[1].count > 0
    /\ esMapping[hist[1].index_name] = VectorMapping
    /\ \A k \in 1..Len(proc[1].calls) : proc[1].calls[k].op # "create"
    /\ \E k \in 1..Len(proc[1].calls) : proc[1].calls[k].op = "exists"

-----------------------------------------------------------------------------
(* Claims about temporary files *)

\* C24: concurrent uploads with the same file name do not interfere through the
\* temporary file: each ingestion loads the bytes of its own upload and reads
\* them back for the object store, and none fails at loading, reading or
\* deleting /data/temp/<filename> because the other one emptied, overwrote or
\* deleted it.
C24_UploadsDoNotShareTempFile ==
    \A w \in Workers :
        LET p == proc[w]
        IN  p.kind = "upload" =>
                /\ p.data # UNSET => p.data = p.upload
                /\ p.content # UNSET => p.content = p.upload
                /\ p.failedAt = "load" => faults > 0
                /\ p.failedAt \notin {"read_file", "remove"}

\* C25: the temporary file process_minio_document creates for a fetched object
\* is deleted by the time processing finishes, on success and on failure, so
\* that a finished scan of a bucket has left no temporary file.
C25_MinioTempFileDeleted ==
    \A w \in Workers :
        LET p == proc[w]
        IN  /\ p.kind = "minio" /\ p.pc \in {"done", "failed"} /\ p.file_path # <<>>
                => p.file_path \notin DOMAIN fs
            /\ p.pc = "scanned"
                => \A path \in DOMAIN fs : ~StartsWith(path, TMP_PREFIX)

-----------------------------------------------------------------------------
(* Claims about the merge and the rerank formula of retrieve_documents *)

\* C26: deduplication never drops a candidate whose content differs from the
\* content of every earlier candidate of the merged list: any two candidates with
\* different content strings both survive.
C26_DistinctContentSurvives ==
    rq.pc \in {"rank", "done"} =>
        LET all    == AllResults(rq.vector_docs, rq.keyword_docs)
            unique == Unique(all, {})
        IN  \A k \in 1..Len(all) :
                (\A m \in 1..(k - 1) : all[m].content # all[k].content)
                    => \E x \in 1..Len(unique) : unique[x] = all[k]

\* C27 as stated: for equal normalized score s, equal query_coverage and equal
\* length_factor, a semantic result's rerank score is at least a keyword
\* result's, and strictly greater when s > 0.
C27_StrictForEveryPositiveScore ==
    rq.pc \in {"rank", "done"} =>
        \A a, b \in {Candidates[k] : k \in 1..Len(Candidates)} :
            /\ a.search_type = "semantic" /\ b.search_type = "keyword"
            /\ a.rerank_factors = b.rerank_factors
            => /\ FLe(b.score, a.score)
               /\ FLt(FromInt(0), a.rerank_factors.original_score) => FLt(b.score, a.score)

\* the smallest normalized score from which the difference of the base terms,
\* 0.18 s, is more than the rounding of a sum below 16 can take away
STRICT_FROM == <<NFromInt(1), -40>>

\* C27: for equal normalized score s, equal query_coverage and equal
\* length_factor, a semantic result's rerank score is never lower than a keyword
\* result's; it is strictly greater when s is at least 2^-40, and for a smaller
\* positive s the two sums of doubles may round to the same number.
C27_SemanticOutranksKeyword ==
    rq.pc \in {"rank", "done"} =>
        \A a, b \in {Candidates[k] : k \in 1..Len(Candidates)} :
            /\ a.search_type = "semantic" /\ b.search_type = "keyword"
            /\ a.rerank_factors = b.rerank_factors
            => /\ FLe(b.score, a.score)
               /\ FLe(STRICT_FROM, a.rerank_factors.original_score) => FLt(b.score, a.score)

\* a semantic and a keyword candidate of one call have the same three factors
\* with a positive normalized score, and the semantic one scores higher
C27_Witness ==
    /\ rq.pc = "done"
    /\ \E a, b \in {Candidates[k] : k \in 1..Len(Candidates)} :
          /\ a.search_type = "semantic" /\ b.search_type = "keyword"
          /\ a.rerank_factors = b.rerank_factors
          /\ a.rerank_factors.original_score = TEN
          /\ FLt(b.score, a.score)

\* C28: for a fixed search_type and a fixed normalized score the rerank score is
\* strictly increasing in query_coverage and strictly increasing in
\* length_factor.
C28_IncreasingInCoverageAndLength ==
    rq.pc \in {"rank", "done"} =>
        \A a, b \in {Candidates[k] : k \in 1..Len(Candidates)} :
            LET fa == a.rerank_factors
                fb == b.rerank_factors
            IN  a.search_type = b.search_type /\ fa.original_score = fb.original_score
                => /\ fa.length_factor = fb.length_factor
                         /\ FLt(fa.query_coverage, fb.query_coverage)
                      => FLt(a.score, b.score)
                   /\ fa.query_coverage = fb.query_coverage
                         /\ FLt(fa.length_factor, fb.length_factor)
                      => FLt(a.score, b.score)

\* one call has two semantic candidates of one normalized score and one length
\* ("red fox", "dog den") of which the second holds more of the query's words,
\* and it scores higher
C28_Witness ==
    /\ rq.pc = "done"
    /\ \E a, b \in {Candidates[k] : k \in 1..Len(Candidates)} :
          /\ a.search_type = "semantic" /\ b.search_type = "semantic"
          /\ a.rerank_factors.original_score = b.rerank_factors.original_score
          /\ a.rerank_factors.length_factor = b.rerank_factors.length_factor
          /\ FLt(a.rerank_factors.query_coverage, b.rerank_factors.query_coverage)
          /\ FLt(a.score, b.score)

-----------------------------------------------------------------------------
(* Claims about failures of external calls, checked under SpecService *)

\* C29: within one ingest or retrieve call every external call is attempted at
\* most once: a failed embedding, write, refresh, search or object-store call is
\* never retried (the failed call is the last one of an ingestion), and a
\* failure of the query embedding makes retrieve fail without issuing either
\* search.
C29_NoRetries ==
    /\ \A w \in Workers :
          LET c == proc[w].calls
          IN  /\ \A a, b \in 1..Len(c) :
                     a # b => <<c[a].op, c[a].at>> # <<c[b].op, c[b].at>>
              /\ proc[w].failedAt # "none" =>
                     /\ proc[w].pc \in {"except", "failed"}
                     /\ c[Len(c)].op = proc[w].failedAt
                     /\ \A a \in 1..(Len(c) - 1) : c[a].op # proc[w].failedAt
    /\ rq.embeds = IF rq.pc \in {"idle", "embed"} THEN 0 ELSE 1
    /\ rq.searches = CASE rq.pc \in {"idle", "embed", "failed"} -> 0
                        [] rq.pc = "vector" -> 0
                        [] rq.pc = "keyword" -> 1
                        [] rq.pc \in {"rank", "done"} -> 2
    /\ rq.efailed => rq.pc = "failed" /\ rq.searches = 0 /\ rq.ret.status = "error"

\* both ingestions went through and the one fault hit the query embedding: the
\* retrieve call has failed after one embedding attempt and no search
C29_Witness ==
    /\ Len(hist) = 2 /\ hist[1].status = "success" /\ hist[2].status = "success"
    /\ rq.efailed /\ rq.pc = "failed" /\ rq.embeds = 1 /\ rq.searches = 0

====
